---- MODULE Spec2Model ----
(***************************************************************************)
(* Model of the Trello HTTP client core (src/src/utils/logger.ts, class    *)
(* TrelloClient): the error classifier handleError, the retry loop of      *)
(* makeRequest with its 429 wait and exponential backoff, the rate-limit   *)
(* header parsing, the fetch-with-timeout attempt and buildURL; and of the *)
(* attachment file cache with the resource read that uses it               *)
(* (src/unnamed/part_002).                                                 *)
(*                                                                         *)
(* JavaScript values are modelled as records whose DOMAIN is the set of    *)
(* properties the code reads, plus a field proto that decides typeof and   *)
(* instanceof.  Strings the code parses or builds are sequences of tokens  *)
(* (single characters where the code parses them).  A JavaScript number    *)
(* that may be NaN is a record [nan, n].                                   *)
(***************************************************************************)
EXTENDS Integers, Sequences, FiniteSets, TLC

(***************************************************************************)
(* Program constants: TrelloClient.retryConfig.                            *)
(***************************************************************************)
\* faulty variant: one attempt too many
maxRetries_Four == 3 + 1

maxRetries == 3
baseDelay == 1000
maxDelay == 10000

(***************************************************************************)
(* Bounds of the model.                                                    *)
(***************************************************************************)
\* retry-after header values 0..MaxRetryAfter seconds are enumerated
MaxRetryAfter == 2

(***************************************************************************)
(* JavaScript numbers, decimal strings and parseInt.                       *)
(***************************************************************************)
Num(k) == [nan |-> FALSE, n |-> k]
NaN == [nan |-> TRUE, n |-> 0]

\* x * k for a JavaScript number x and an integer k (NaN * k is NaN)
Times(x, k) == IF x.nan THEN NaN ELSE Num(x.n * k)

\* x || d for a JavaScript number x: 0 and NaN are falsy
NumOr(x, d) == IF x.nan \/ x.n = 0 THEN d ELSE x

DigitChars == <<"0", "1", "2", "3", "4", "5", "6", "7", "8", "9">>

IsDigit(c) == \E i \in 1..10 : DigitChars[i] = c

DigitVal(c) == (CHOOSE i \in 1..10 : DigitChars[i] = c) - 1

\* String(n) / `${n}` for a natural number n: its decimal digits
RECURSIVE Digits(_)
Digits(n) == IF n < 10 THEN <<DigitChars[n + 1]>>
             ELSE Digits(n \div 10) \o <<DigitChars[(n % 10) + 1]>>

RECURSIVE SkipSpaces(_)
SkipSpaces(s) == IF s # <<>> /\ Head(s) = " " THEN SkipSpaces(Tail(s)) ELSE s

RECURSIVE LeadingDigits(_)
LeadingDigits(s) == IF s # <<>> /\ IsDigit(Head(s))
                    THEN <<Head(s)>> \o LeadingDigits(Tail(s))
                    ELSE <<>>

RECURSIVE DigitsValue(_, _)
DigitsValue(ds, acc) == IF ds = <<>> THEN acc
                        ELSE DigitsValue(Tail(ds), acc * 10 + DigitVal(Head(ds)))

\* parseInt(s, 10): leading blanks skipped, an optional sign, then the longest
\* run of decimal digits; NaN when there is no digit
ParseInt(s) ==
    LET t == SkipSpaces(s)
        neg == t # <<>> /\ Head(t) = "-"
        u == IF t # <<>> /\ Head(t) \in {"-", "+"} THEN Tail(t) ELSE t
        ds == LeadingDigits(u)
    IN  IF ds = <<>> THEN NaN
        ELSE Num(IF neg THEN 0 - DigitsValue(ds, 0) ELSE DigitsValue(ds, 0))

(***************************************************************************)
(* Response headers.  headers.get(name) is null when the header is absent: *)
(* a header is [present, v], v its value as a sequence of characters.      *)
(***************************************************************************)
Absent == [present |-> FALSE, v |-> <<>>]
Hdr(s) == [present |-> TRUE, v |-> s]

\* a header value is truthy when it is present and not the empty string
HdrTruthy(h) == h.present /\ h.v # <<>>

\* faulty variant: the header is ignored and the default always taken
HdrOr_Default(h, dflt) == dflt

\* headers.get(name) || dflt
HdrOr(h, dflt) == IF HdrTruthy(h) THEN h.v ELSE dflt

(***************************************************************************)
(* Failure values.  proto is the value's class (or its typeof for a        *)
(* primitive); the other fields are the properties the code reads.         *)
(***************************************************************************)
ErrorProtos == {"Error", "TypeError", "SyntaxError", "DOMException"}

\* error instanceof Error
InstanceOfError(error) == error.proto \in ErrorProtos

\* error instanceof TypeError
InstanceOfTypeError(error) == error.proto = "TypeError"

\* error instanceof Response
InstanceOfResponse(error) == error.proto = "Response"

\* error && typeof error === 'object'
IsObject(error) == error.proto \notin {"undefined", "null", "string"}

\* message.includes(tok), at the granularity of the message's tokens
Includes(message, tok) == \E i \in 1..Len(message) : message[i] = tok

\* String(error) for a value that is no Error
StringOf(error) ==
    IF error.proto \in {"undefined", "null"} THEN <<error.proto>>
    ELSE IF error.proto = "string" THEN error.str
    ELSE <<"[object ", error.proto, "]">>

\* the undefined value (lastError before any catch)
Undefined == [proto |-> "undefined"]

\* what fetch rejects with when the connection fails (undici)
FetchFailed ==
    [proto |-> "TypeError", name |-> "TypeError", message |-> <<"fetch", " failed">>]

\* what fetch rejects with when its signal is aborted
AbortError ==
    [proto |-> "DOMException", name |-> "AbortError",
     message |-> <<"This operation was aborted">>]

\* what response.json() rejects with on a body that is not JSON
JsonSyntaxError ==
    [proto |-> "SyntaxError", name |-> "SyntaxError",
     message |-> <<"Unexpected token">>]

(***************************************************************************)
(* TrelloClient.calculateBackoffDelay                                      *)
(***************************************************************************)
Min(a, b) == IF a <= b THEN a ELSE b

\* faulty variant: the delay is not capped
calculateBackoffDelay_NoCap(attempt) == baseDelay * 2 ^ (attempt - 1)

\* faulty variant: the exponent is off by one
calculateBackoffDelay_OffByOne(attempt) ==
    LET delay == baseDelay * 2 ^ attempt
    IN  Min(delay, maxDelay)

calculateBackoffDelay(attempt) ==
    LET delay == baseDelay * 2 ^ (attempt - 1)
    IN  Min(delay, maxDelay)

(***************************************************************************)
(* TrelloClient.handleError                                                *)
(***************************************************************************)
StatusMessage(status) ==
    CASE status = 401 ->
           <<"Invalid or expired Trello credentials. Please update your API key and token in Claude.app's MCP connection settings.">>
      [] status = 403 ->
           <<"Insufficient permissions. Your Trello token may need additional permissions, or the resource may be private. Please check your Trello settings or update your token in Claude.app.">>
      [] status = 404 -> <<"Resource not found">>
      [] status = 429 -> <<"Rate limit exceeded">>
      [] status = 500 -> <<"Trello server error">>
      [] OTHER -> <<"HTTP ">> \o Digits(status) \o <<" error">>

StatusCode(status) ==
    CASE status = 401 -> "INVALID_CREDENTIALS"
      [] status = 403 -> "INSUFFICIENT_PERMISSIONS"
      [] status = 404 -> "NOT_FOUND"
      [] status = 429 -> "RATE_LIMIT_EXCEEDED"
      [] status = 500 -> "SERVER_ERROR"
      [] OTHER -> "API_ERROR"

\* faulty variant: a failure that matches nothing is passed on as it is
handleError_RawUnknown(error) ==
    IF InstanceOfTypeError(error) /\ Includes(error.message, "fetch")
    THEN [message |-> <<"Network error - unable to reach Trello API">>,
          error |-> error.message,
          code |-> "NETWORK_ERROR"]
    ELSE IF InstanceOfError(error) /\ error.name = "AbortError"
    THEN [message |-> <<"Request timeout - Trello API did not respond in time">>,
          error |-> error.message,
          code |-> "TIMEOUT_ERROR"]
    ELSE IF IsObject(error) /\ "status" \in DOMAIN error
    THEN [message |-> StatusMessage(error.status),
          error |-> Digits(error.status) \o <<" - ">> \o
                    (IF "statusText" \in DOMAIN error
                     THEN error.statusText ELSE <<"undefined">>),
          status |-> error.status,
          code |-> StatusCode(error.status)]
    ELSE error

\* faulty variant: the status is looked at before the network and abort tests
handleError_StatusFirst(error) ==
    IF IsObject(error) /\ "status" \in DOMAIN error
    THEN [message |-> StatusMessage(error.status),
          error |-> Digits(error.status) \o <<" - ">> \o
                    (IF "statusText" \in DOMAIN error
                     THEN error.statusText ELSE <<"undefined">>),
          status |-> error.status,
          code |-> StatusCode(error.status)]
    ELSE IF InstanceOfTypeError(error) /\ Includes(error.message, "fetch")
    THEN [message |-> <<"Network error - unable to reach Trello API">>,
          error |-> error.message,
          code |-> "NETWORK_ERROR"]
    ELSE IF InstanceOfError(error) /\ error.name = "AbortError"
    THEN [message |-> <<"Request timeout - Trello API did not respond in time">>,
          error |-> error.message,
          code |-> "TIMEOUT_ERROR"]
    ELSE [message |-> <<"Unknown error occurred">>,
          error |-> IF InstanceOfError(error) THEN error.message
                    ELSE StringOf(error),
          code |-> "UNKNOWN_ERROR"]

handleError(error) ==
    IF InstanceOfTypeError(error) /\ Includes(error.message, "fetch")
    THEN [message |-> <<"Network error - unable to reach Trello API">>,
          error |-> error.message,
          code |-> "NETWORK_ERROR"]
    ELSE IF InstanceOfError(error) /\ error.name = "AbortError"
    THEN [message |-> <<"Request timeout - Trello API did not respond in time">>,
          error |-> error.message,
          code |-> "TIMEOUT_ERROR"]
    ELSE IF IsObject(error) /\ "status" \in DOMAIN error
    THEN [message |-> StatusMessage(error.status),
          error |-> Digits(error.status) \o <<" - ">> \o
                    (IF "statusText" \in DOMAIN error
                     THEN error.statusText ELSE <<"undefined">>),
          status |-> error.status,
          code |-> StatusCode(error.status)]
    ELSE [message |-> <<"Unknown error occurred">>,
          error |-> IF InstanceOfError(error) THEN error.message
                    ELSE StringOf(error),
          code |-> "UNKNOWN_ERROR"]

(***************************************************************************)
(* TrelloClient.shouldRetry                                                *)
(***************************************************************************)
\* faulty variant: every HTTP error status is retried
shouldRetry_AnyHttpError(error) ==
    IF InstanceOfTypeError(error) /\ Includes(error.message, "fetch") THEN TRUE
    ELSE IF InstanceOfError(error) /\ error.name = "AbortError" THEN TRUE
    ELSE IF InstanceOfResponse(error) THEN error.status >= 400
    ELSE FALSE

\* faulty variant: an aborted request is not retried
shouldRetry_NoAbort(error) ==
    IF InstanceOfTypeError(error) /\ Includes(error.message, "fetch") THEN TRUE
    ELSE IF InstanceOfResponse(error)
    THEN error.status >= 500 \/ error.status = 429
    ELSE FALSE

\* faulty variant: a failure is not retried once the quota is used up
shouldRetry_UnlessExhausted(error) ==
    IF InstanceOfTypeError(error) /\ Includes(error.message, "fetch") THEN TRUE
    ELSE IF InstanceOfError(error) /\ error.name = "AbortError" THEN TRUE
    ELSE IF InstanceOfResponse(error)
    THEN /\ error.status >= 500 \/ error.status = 429
         /\ error.headers.remaining # [present |-> TRUE, v |-> <<"0">>]
    ELSE FALSE

shouldRetry(error) ==
    IF InstanceOfTypeError(error) /\ Includes(error.message, "fetch") THEN TRUE
    ELSE IF InstanceOfError(error) /\ error.name = "AbortError" THEN TRUE
    ELSE IF InstanceOfResponse(error)
    THEN error.status >= 500 \/ error.status = 429
    ELSE FALSE

(***************************************************************************)
(* TrelloClient.extractRateLimitInfo.  NoRateLimit is the undefined it     *)
(* returns when the limit header is missing or empty.                      *)
(***************************************************************************)
NoRateLimit == [proto |-> "undefined"]

\* faulty variant: defaults are returned when the limit header is missing
extractRateLimitInfo_Defaulted(response) ==
    LET limit == response.headers.limit
        remaining == response.headers.remaining
        reset == response.headers.reset
    IN  [limit |-> NumOr(ParseInt(HdrOr(limit, <<"3", "0", "0">>)), Num(300)),
         remaining |-> ParseInt(HdrOr(remaining, <<"0">>)),
         resetTime |-> ParseInt(HdrOr(reset, <<"0">>))]

extractRateLimitInfo(response) ==
    LET limit == response.headers.limit
        remaining == response.headers.remaining
        reset == response.headers.reset
    IN  IF HdrTruthy(limit)
        THEN [limit |-> NumOr(ParseInt(limit.v), Num(300)),
              remaining |-> ParseInt(HdrOr(remaining, <<"0">>)),
              resetTime |-> ParseInt(HdrOr(reset, <<"0">>))]
        ELSE NoRateLimit

(***************************************************************************)
(* What the upstream can answer to one attempt.                            *)
(***************************************************************************)
Ops == {1, 2}

OkStatuses == {200, 201}
ClientErrorStatuses == {400, 401, 403, 404}
ServerErrorStatuses == {500, 502, 503, 504}

\* retry-after: missing, not a number, or a number of seconds
RetryAfterHeaders ==
    {Absent, Hdr(<<"x">>)} \cup {Hdr(Digits(r)) : r \in 0..MaxRetryAfter}

NoRateLimitHeaders == [retryAfter |-> Absent, limit |-> Absent,
                       remaining |-> Absent, reset |-> Absent]

\* the x-rate-limit-api-key-* headers of a response
RateLimitHeaders ==
    {NoRateLimitHeaders}
    \cup {[retryAfter |-> Absent, limit |-> Hdr(l), remaining |-> r, reset |-> t] :
            l \in {<<"3", "0", "0">>, <<"0">>, <<"x">>},
            r \in {Absent, Hdr(<<"0">>), Hdr(<<"7">>)},
            t \in {Absent, Hdr(<<"9">>)}}
    \cup {[retryAfter |-> Absent, limit |-> Hdr(<<>>), remaining |-> Hdr(<<"7">>),
           reset |-> Hdr(<<"9">>)],
          [retryAfter |-> Absent, limit |-> Absent, remaining |-> Hdr(<<"7">>),
           reset |-> Hdr(<<"9">>)]}

\* the two header sets an error response is given
ErrorHeaders ==
    {NoRateLimitHeaders,
     [retryAfter |-> Absent, limit |-> Hdr(<<"3", "0", "0">>),
      remaining |-> Hdr(<<"0">>), reset |-> Hdr(<<"9">>)]}

Bodies == {"card", "board"}

Response(status, headers, bodyOk, body) ==
    [proto |-> "Response", status |-> status, statusText |-> <<"reason">>,
     headers |-> headers, bodyOk |-> bodyOk, body |-> body]

OkResponses ==
    {Response(s, h, b, d) : s \in OkStatuses, h \in RateLimitHeaders,
                            b \in BOOLEAN, d \in Bodies}

RateLimitedResponses ==
    {Response(429, [h EXCEPT !.retryAfter = ra], FALSE, "card") :
        h \in ErrorHeaders, ra \in RetryAfterHeaders}

ErrorResponses ==
    {Response(s, h, TRUE, "card") :
        s \in ClientErrorStatuses \cup ServerErrorStatuses, h \in ErrorHeaders}

\* response.ok
Ok(response) == response.status >= 200 /\ response.status <= 299

\* what fetch itself can reject with, the abort of the timeout apart
FetchRejections ==
    {FetchFailed,
     [proto |-> "TypeError", name |-> "TypeError", message |-> <<"Invalid URL">>]}

(***************************************************************************)
(* TrelloClient.buildURL.  A string value is [proto |-> "string", str],    *)
(* str its characters.  The query of a URL (url.searchParams) is a         *)
(* sequence of <<name, value>> pairs; a params object is a record holding  *)
(* the sequence of its entries in insertion order, its keys distinct.      *)
(***************************************************************************)
Str(chars) == [proto |-> "string", str |-> chars]

\* String(value), as URLSearchParams.set converts its argument
ToUSVString(value) == IF value.proto = "string" THEN value.str ELSE <<value.proto>>

\* the pairs of q whose name is not k
RECURSIVE Without(_, _)
Without(q, k) ==
    IF q = <<>> THEN <<>>
    ELSE IF Head(q)[1] = k THEN Without(Tail(q), k)
    ELSE <<Head(q)>> \o Without(Tail(q), k)

\* URLSearchParams.set(k, v): the first pair named k takes the value v and
\* the other pairs named k are removed; with no such pair <<k, v>> is appended
RECURSIVE SearchParamsSet(_, _, _)
SearchParamsSet(q, k, v) ==
    IF q = <<>> THEN <<<<k, v>>>>
    ELSE IF Head(q)[1] = k THEN <<<<k, v>>>> \o Without(Tail(q), k)
    ELSE <<Head(q)>> \o SearchParamsSet(Tail(q), k, v)

\* the application/x-www-form-urlencoded form of one character
FormEncodeChar(c) ==
    CASE c = " " -> <<"+">>
      [] c = "&" -> <<"%", "2", "6">>
      [] c = "=" -> <<"%", "3", "D">>
      [] c = "+" -> <<"%", "2", "B">>
      [] OTHER -> <<c>>

RECURSIVE FormEncode(_)
FormEncode(chars) ==
    IF chars = <<>> THEN <<>>
    ELSE FormEncodeChar(Head(chars)) \o FormEncode(Tail(chars))

\* url.toString(): the base and path, and the query serialised pair by pair
UrlToString(href, q) ==
    [href |-> href, query |-> [i \in 1..Len(q) |-> <<q[i][1], FormEncode(q[i][2])>>]]

\* Object.entries(params).forEach: set every entry whose value is defined
RECURSIVE SetEntries(_, _)
SetEntries(q, entries) ==
    IF entries = <<>> THEN q
    ELSE LET key == Head(entries)[1]
             value == Head(entries)[2]
         IN  SetEntries(IF value # Undefined
                        THEN SearchParamsSet(q, key, ToUSVString(value))
                        ELSE q,
                        Tail(entries))

baseURL == <<"https://api.trello.com/1">>

\* params is Undefined when the caller gave none
buildURL(credentials, endpoint, params) ==
    LET q0 == SearchParamsSet(<<>>, "key", credentials.apiKey)
        q1 == SearchParamsSet(q0, "token", credentials.token)
        q2 == IF params # Undefined THEN SetEntries(q1, params.entries) ELSE q1
    IN  UrlToString(baseURL \o <<endpoint>>, q2)

(***************************************************************************)
(* The attachment file cache (src/unnamed/part_002, cache part).  The      *)
(* state the functions work on is a record cs:                             *)
(*   cs.cache   the Map fileAttachmentCache, a function from attachment id *)
(*              to the entry or Undefined (what Map.get returns);          *)
(*   cs.timers  the pending timeouts, each [id, attachmentId, due];        *)
(*   cs.disk    the paths of the files that exist.                         *)
(* An entry carries fileSize and mimeType along unchanged; they are left   *)
(* out.                                                                    *)
(***************************************************************************)
CACHE_TTL_MS == 10 * 60 * 1000

TEMP_DIR == "/tmp/trello-mcp-server"

getCachedFileAttachment(cs, attachmentId) == cs.cache[attachmentId]

\* faulty variant: the entry still counts as fresh at the very end of its TTL
isCacheValid_LateExpiry(cached, t, files) ==
    LET isExpired == (t - cached.downloadedAt) > CACHE_TTL_MS
        fileExists == cached.filePath \in files
    IN  ~isExpired /\ fileExists

\* faulty variant: only the file is looked at
isCacheValid_FileOnly(cached, t, files) == cached.filePath \in files

\* t is what Date.now() returns, files the paths fs.existsSync finds
isCacheValid(cached, t, files) ==
    LET isExpired == (t - cached.downloadedAt) >= CACHE_TTL_MS
        fileExists == cached.filePath \in files
    IN  ~isExpired /\ fileExists

\* faulty variant: the file is removed but the timer is left pending
cleanupFileAttachment_KeepTimer(cs, attachmentId) ==
    LET cached == cs.cache[attachmentId]
    IN  IF cached = Undefined THEN cs
        ELSE [cache |-> [cs.cache EXCEPT ![attachmentId] = Undefined],
              timers |-> cs.timers,
              disk |-> cs.disk \ {cached.filePath}]

\* faulty variant: without an entry, the files staged for the id are removed
cleanupFileAttachment_NoRecheck(cs, attachmentId) ==
    LET cached == cs.cache[attachmentId]
    IN  IF cached = Undefined
        THEN [cs EXCEPT !.disk = {f \in @ : f[3] # attachmentId}]
        ELSE [cache |-> [cs.cache EXCEPT ![attachmentId] = Undefined],
              timers |-> {tm \in cs.timers : tm.id # cached.cleanupTimer},
              disk |-> cs.disk \ {cached.filePath}]

\* clearTimeout of the entry's timer, unlinkSync of its file when it exists
\* (an unlink of an existing file is taken to succeed), Map.delete
cleanupFileAttachment(cs, attachmentId) ==
    LET cached == cs.cache[attachmentId]
    IN  IF cached = Undefined THEN cs
        ELSE [cache |-> [cs.cache EXCEPT ![attachmentId] = Undefined],
              timers |-> {tm \in cs.timers : tm.id # cached.cleanupTimer},
              disk |-> cs.disk \ {cached.filePath}]

\* setTimeout(cleanup, CACHE_TTL_MS) at time t, its handle timerId, then
\* Map.set: an entry already held under the id is replaced, its timer is not
\* cleared
cacheFileAttachment(cs, attachment, timerId, t) ==
    LET cleanupTimer == [id |-> timerId,
                         attachmentId |-> attachment.attachmentId,
                         due |-> t + CACHE_TTL_MS]
    IN  [cache |-> [cs.cache EXCEPT ![attachment.attachmentId] =
                      [filePath |-> attachment.filePath,
                       fileName |-> attachment.fileName,
                       cardId |-> attachment.cardId,
                       attachmentId |-> attachment.attachmentId,
                       downloadedAt |-> attachment.downloadedAt,
                       cleanupTimer |-> timerId]],
         timers |-> cs.timers \cup {cleanupTimer},
         disk |-> cs.disk]

\* the ids under which the Map holds an entry
Keys(cs) == {a \in DOMAIN cs.cache : cs.cache[a] # Undefined}

\* faulty variant: the iteration ends after the first deletion
clearFileAttachmentCache_FirstOnly(cs) ==
    IF Keys(cs) = {} THEN cs
    ELSE cleanupFileAttachment(cs, CHOOSE a \in Keys(cs) : TRUE)

\* for (const attachmentId of fileAttachmentCache.keys()): the iterator of a
\* Map is live, and deleting the key it is at does not make it skip another
RECURSIVE CleanupEach(_, _)
CleanupEach(cs, keys) ==
    IF keys = {} THEN cs
    ELSE LET a == CHOOSE k \in keys : TRUE
         IN  CleanupEach(cleanupFileAttachment(cs, a), keys \ {a})

clearFileAttachmentCache(cs) == CleanupEach(cs, Keys(cs))

(***************************************************************************)
(* handleAttachmentResource: the staging path of a download.               *)
(***************************************************************************)
SafeChars == {"a", "b", ".", "_", "-", "1"}

\* fileName.replace(/[^a-zA-Z0-9._-]/g, '_')
safeFileName(fileName) ==
    [i \in 1..Len(fileName) |-> IF fileName[i] \in SafeChars THEN fileName[i] ELSE "_"]

\* path.join(TEMP_DIR, `${attachmentId}_${safeFileName}`)
StagedPath(attachmentId, fileName) ==
    <<TEMP_DIR, "/", attachmentId, "_">> \o safeFileName(fileName)

(***************************************************************************)
(* State: one logical operation (one call of makeRequest) per element of   *)
(* ops; every field below is local to that call.                           *)
(***************************************************************************)
VARIABLES
    ops,        \* the operations that are called in this run
    pc,         \* idle, fetching, sleeping, resolved, rejected
    attempt,    \* the loop counter of makeRequest
    lastError,  \* the variable lastError of makeRequest
    timer,      \* TRUE while the abort timer of fetchWithTimeout is armed
    log,        \* the fetches issued and the sleeps started, in order
    outcomes,   \* what each attempt ended with, in order
    retval,     \* the value makeRequest resolved with
    thrown,     \* the value makeRequest rejected with
    failure,    \* the argument of a direct call of handleError
    classified, \* what that call returned
    request,    \* the endpoint, params and credentials of a call of buildURL
    url,        \* what that call returned
    fileAttachmentCache, \* the Map of the cache: attachment id -> entry
    timeouts,   \* the pending cleanup timers
    disk,       \* the paths of the staged files that exist
    now,        \* what Date.now() returns
    timerSeq,   \* the number of timers created so far
    rpc,        \* per read flow: idle, metadata, download
    ruri,       \* per read flow: the parsed URI, while the flow runs
    rcached,    \* per read flow: the local variable cached, until the read
                \* leaves the download path (so kept after a cached return)
    rattachment, \* per read flow: the local variable attachment, while it runs
    rretval,    \* per read flow: the metadata the last read returned
    rthrown,    \* per read flow: what the last read threw
    lastCall,   \* the direct call of a cache function made by the last step
    lastPut,    \* per attachment id: the last cacheFileAttachment call
    tpc,        \* a tool handler's position: idle, awaiting, returned
    targs,      \* the arguments the handler was called with
    tcaught,    \* what the handler's catch block caught
    tresult     \* what the handler returned

opVars == <<ops, pc, attempt, lastError, timer, log, outcomes, retval, thrown>>
clsVars == <<failure, classified>>
urlVars == <<request, url>>
storeVars == <<fileAttachmentCache, timeouts, disk>>
readVars == <<rpc, ruri, rcached, rattachment, rretval, rthrown>>
cacheVars == <<storeVars, now, timerSeq, readVars, lastCall, lastPut>>
toolVars == <<tpc, targs, tcaught, tresult>>
vars == <<opVars, clsVars, urlVars, toolVars, cacheVars, toolVars>>

\* no call of buildURL is being examined
UrlIdle == request = Undefined /\ url = Undefined

\* no tool handler has been called
ToolIdle ==
    /\ tpc = "idle"
    /\ targs = Undefined
    /\ tcaught = Undefined
    /\ tresult = Undefined

AttachmentIds == {"att1", "att2"}
Readers == {1, 2}

NoCall == [op |-> "none"]

\* the cache as the module leaves it when loaded, and no read running
CacheIdle ==
    /\ fileAttachmentCache = [a \in AttachmentIds |-> Undefined]
    /\ timeouts = {}
    /\ disk = {}
    /\ now = 0
    /\ timerSeq = 0
    /\ rpc = [r \in Readers |-> "idle"]
    /\ ruri = [r \in Readers |-> Undefined]
    /\ rcached = [r \in Readers |-> Undefined]
    /\ rattachment = [r \in Readers |-> Undefined]
    /\ rretval = [r \in Readers |-> Undefined]
    /\ rthrown = [r \in Readers |-> Undefined]
    /\ lastCall = NoCall
    /\ lastPut = [a \in AttachmentIds |-> Undefined]

NoValue == [proto |-> "undefined"]

FetchEvent(n) == [ev |-> "fetch", attempt |-> n]
SleepEvent(n, kind, ms) == [ev |-> "sleep", attempt |-> n, kind |-> kind, ms |-> ms]

Init ==
    /\ ops = {1}
    /\ pc = [o \in Ops |-> "idle"]
    /\ attempt = [o \in Ops |-> 0]
    /\ lastError = [o \in Ops |-> Undefined]
    /\ timer = [o \in Ops |-> FALSE]
    /\ log = [o \in Ops |-> <<>>]
    /\ outcomes = [o \in Ops |-> <<>>]
    /\ retval = [o \in Ops |-> NoValue]
    /\ thrown = [o \in Ops |-> NoValue]
    /\ failure = Undefined
    /\ classified = NoValue
    /\ UrlIdle
    /\ CacheIdle
    /\ ToolIdle

(***************************************************************************)
(* TrelloClient.makeRequest                                                *)
(***************************************************************************)
\* a client method calls makeRequest: the loop starts and the first fetch is
\* issued by fetchWithTimeout, which arms the abort timer
Call(o) ==
    /\ o \in ops
    /\ pc[o] = "idle"
    /\ pc' = [pc EXCEPT ![o] = "fetching"]
    /\ attempt' = [attempt EXCEPT ![o] = 1]
    /\ lastError' = [lastError EXCEPT ![o] = Undefined]
    /\ timer' = [timer EXCEPT ![o] = TRUE]
    /\ log' = [log EXCEPT ![o] = <<FetchEvent(1)>>]
    /\ UNCHANGED <<clsVars, urlVars, toolVars, cacheVars, ops, outcomes, retval, thrown>>

\* faulty variant: the loop counter is one variable shared by all calls
Continue_SharedCounter(o, le, lg) ==
    LET shared == attempt[CHOOSE p \in Ops : \A q \in Ops : attempt[p] >= attempt[q]]
    IN  /\ attempt' = [p \in Ops |-> shared + 1]
        /\ IF shared + 1 <= maxRetries
           THEN /\ pc' = [pc EXCEPT ![o] = "fetching"]
                /\ timer' = [timer EXCEPT ![o] = TRUE]
                /\ log' = [log EXCEPT ![o] = Append(lg, FetchEvent(attempt[o] + 1))]
                /\ thrown' = thrown
           ELSE /\ pc' = [pc EXCEPT ![o] = "rejected"]
                /\ timer' = [timer EXCEPT ![o] = FALSE]
                /\ log' = [log EXCEPT ![o] = lg]
                /\ thrown' = [thrown EXCEPT ![o] = handleError(le)]

\* faulty variant: the loop does not go on to its next iteration
Continue_Stuck(o, le, lg) == UNCHANGED <<attempt, pc, timer, log, thrown>>

\* `continue`: attempt++, then either the next fetch or, the loop being over,
\* throw this.handleError(lastError); le is lastError at that point and lg the
\* log so far
Continue(o, le, lg) ==
    /\ attempt' = [attempt EXCEPT ![o] = attempt[o] + 1]
    /\ IF attempt[o] + 1 <= maxRetries
       THEN /\ pc' = [pc EXCEPT ![o] = "fetching"]
            /\ timer' = [timer EXCEPT ![o] = TRUE]
            /\ log' = [log EXCEPT ![o] = Append(lg, FetchEvent(attempt[o] + 1))]
            /\ thrown' = thrown
       ELSE /\ pc' = [pc EXCEPT ![o] = "rejected"]
            /\ timer' = [timer EXCEPT ![o] = FALSE]
            /\ log' = [log EXCEPT ![o] = lg]
            /\ thrown' = [thrown EXCEPT ![o] = handleError(le)]

\* faulty variant: the next attempt is issued without waiting
Sleep_NoWait(o, kind, ms) ==
    /\ pc' = [pc EXCEPT ![o] = "fetching"]
    /\ timer' = [timer EXCEPT ![o] = TRUE]
    /\ attempt' = [attempt EXCEPT ![o] = attempt[o] + 1]
    /\ log' = [log EXCEPT ![o] = Append(log[o], FetchEvent(attempt[o] + 1))]
    /\ UNCHANGED thrown

\* await this.sleep(ms): the flow is suspended until the timer fires
Sleep(o, kind, ms) ==
    /\ pc' = [pc EXCEPT ![o] = "sleeping"]
    /\ timer' = [timer EXCEPT ![o] = FALSE]
    /\ log' = [log EXCEPT ![o] = Append(log[o], SleepEvent(attempt[o], kind, ms))]
    /\ UNCHANGED <<attempt, thrown>>

\* the catch block of the loop body
Catch(o, error) ==
    /\ lastError' = [lastError EXCEPT ![o] = error]
    /\ IF InstanceOfResponse(error) /\ error.status = 429
       THEN Continue(o, error, log[o])
       ELSE IF attempt[o] < maxRetries /\ shouldRetry(error)
       THEN Sleep(o, "backoff", Num(calculateBackoffDelay(attempt[o])))
       ELSE /\ pc' = [pc EXCEPT ![o] = "rejected"]
            /\ timer' = [timer EXCEPT ![o] = FALSE]
            /\ thrown' = [thrown EXCEPT ![o] = handleError(error)]
            /\ UNCHANGED <<attempt, log>>

\* the fetch resolves with a 2xx response whose body parses: return
RespondOk(o, response) ==
    /\ pc[o] = "fetching"
    /\ Ok(response) /\ response.bodyOk
    /\ pc' = [pc EXCEPT ![o] = "resolved"]
    /\ timer' = [timer EXCEPT ![o] = FALSE]
    /\ retval' = [retval EXCEPT ![o] =
                    [data |-> response.body,
                     rateLimit |-> extractRateLimitInfo(response)]]
    /\ outcomes' = [outcomes EXCEPT ![o] = Append(@, response)]
    /\ UNCHANGED <<clsVars, urlVars, toolVars, cacheVars, ops, attempt, lastError, log, thrown>>

\* the fetch resolves with a 2xx response and response.json() throws
RespondUnparsable(o, response) ==
    /\ pc[o] = "fetching"
    /\ Ok(response) /\ ~response.bodyOk
    /\ Catch(o, JsonSyntaxError)
    /\ outcomes' = [outcomes EXCEPT ![o] = Append(@, response)]
    /\ UNCHANGED <<clsVars, urlVars, toolVars, cacheVars, ops, retval>>

\* the fetch resolves with a 429 response: wait retry-after seconds, continue
RespondRateLimited(o, response) ==
    /\ pc[o] = "fetching"
    /\ ~Ok(response) /\ response.status = 429
    /\ LET retryAfter == ParseInt(HdrOr(response.headers.retryAfter, <<"6", "0">>))
       IN  Sleep(o, "retry-after", Times(retryAfter, 1000))
    /\ outcomes' = [outcomes EXCEPT ![o] = Append(@, response)]
    /\ UNCHANGED <<clsVars, urlVars, toolVars, cacheVars, ops, lastError, retval>>

\* the fetch resolves with another response that is not ok: throw response
RespondError(o, response) ==
    /\ pc[o] = "fetching"
    /\ ~Ok(response) /\ response.status # 429
    /\ Catch(o, response)
    /\ outcomes' = [outcomes EXCEPT ![o] = Append(@, response)]
    /\ UNCHANGED <<clsVars, urlVars, toolVars, cacheVars, ops, retval>>

\* the fetch rejects (fetchWithTimeout clears the timer and rethrows)
FetchRejects(o, error) ==
    /\ pc[o] = "fetching"
    /\ Catch(o, error)
    /\ outcomes' = [outcomes EXCEPT ![o] = Append(@, error)]
    /\ UNCHANGED <<clsVars, urlVars, toolVars, cacheVars, ops, retval>>

\* the abort timer of fetchWithTimeout fires: controller.abort() makes the
\* fetch reject with an AbortError
TimeoutFires(o) ==
    /\ pc[o] = "fetching"
    /\ timer[o]
    /\ Catch(o, AbortError)
    /\ outcomes' = [outcomes EXCEPT ![o] = Append(@, AbortError)]
    /\ UNCHANGED <<clsVars, urlVars, toolVars, cacheVars, ops, retval>>

\* the timer of sleep fires: the loop continues
SleepDone(o) ==
    /\ pc[o] = "sleeping"
    /\ Continue(o, lastError[o], log[o])
    /\ UNCHANGED <<clsVars, urlVars, toolVars, cacheVars, ops, lastError, outcomes, retval>>

Next ==
    \E o \in Ops :
        \/ Call(o)
        \/ \E response \in OkResponses : RespondOk(o, response)
        \/ \E response \in OkResponses : RespondUnparsable(o, response)
        \/ \E response \in RateLimitedResponses : RespondRateLimited(o, response)
        \/ \E response \in ErrorResponses : RespondError(o, response)
        \/ \E error \in FetchRejections : FetchRejects(o, error)
        \/ TimeoutFires(o)
        \/ SleepDone(o)

Spec == Init /\ [][Next]_vars

\* the responses without rate-limit headers: the headers other than
\* retry-after have no part in the course of the loop
Plain(responses) ==
    {response \in responses :
        [response.headers EXCEPT !.retryAfter = Absent] = NoRateLimitHeaders}

\* the attempt in flight ends: the fetch resolves or rejects, or the timeout
\* of fetchWithTimeout aborts it
AttemptEnds(o) ==
    \/ \E response \in Plain(OkResponses) : RespondOk(o, response)
    \/ \E response \in Plain(OkResponses) : RespondUnparsable(o, response)
    \/ \E response \in Plain(RateLimitedResponses) : RespondRateLimited(o, response)
    \/ \E response \in Plain(ErrorResponses) : RespondError(o, response)
    \/ \E error \in FetchRejections : FetchRejects(o, error)
    \/ TimeoutFires(o)

NextFair ==
    \E o \in Ops :
        \/ Call(o)
        \/ \E response \in Plain(OkResponses) : RespondOk(o, response)
        \/ \E response \in Plain(OkResponses) : RespondUnparsable(o, response)
        \/ \E response \in Plain(RateLimitedResponses) : RespondRateLimited(o, response)
        \/ \E response \in Plain(ErrorResponses) : RespondError(o, response)
        \/ \E error \in FetchRejections : FetchRejects(o, error)
        \/ TimeoutFires(o)
        \/ SleepDone(o)

\* every attempt ends (at the latest by the abort timer) and every sleep
\* ends (setTimeout fires)
SpecFair ==
    /\ Init
    /\ [][NextFair]_vars
    /\ \A o \in Ops : WF_vars(AttemptEnds(o)) /\ WF_vars(SleepDone(o))

(***************************************************************************)
(* Two calls of makeRequest under way at once, their steps interleaved in  *)
(* any order; each attempt ends in one of a few outcomes of every class.   *)
(***************************************************************************)
TwoOk == {Response(200, NoRateLimitHeaders, b, "card") : b \in BOOLEAN}
TwoRateLimited ==
    {Response(429, [NoRateLimitHeaders EXCEPT !.retryAfter = Hdr(<<"1">>)], FALSE, "card")}
TwoErrors == {Response(st, NoRateLimitHeaders, TRUE, "card") : st \in {404, 500}}

InitTwo ==
    /\ ops = Ops
    /\ pc = [o \in Ops |-> "idle"]
    /\ attempt = [o \in Ops |-> 0]
    /\ lastError = [o \in Ops |-> Undefined]
    /\ timer = [o \in Ops |-> FALSE]
    /\ log = [o \in Ops |-> <<>>]
    /\ outcomes = [o \in Ops |-> <<>>]
    /\ retval = [o \in Ops |-> NoValue]
    /\ thrown = [o \in Ops |-> NoValue]
    /\ failure = Undefined
    /\ classified = NoValue
    /\ UrlIdle
    /\ CacheIdle
    /\ ToolIdle

NextTwo ==
    \E o \in Ops :
        \/ Call(o)
        \/ \E response \in TwoOk : RespondOk(o, response)
        \/ \E response \in TwoOk : RespondUnparsable(o, response)
        \/ \E response \in TwoRateLimited : RespondRateLimited(o, response)
        \/ \E response \in TwoErrors : RespondError(o, response)
        \/ FetchRejects(o, FetchFailed)
        \/ TimeoutFires(o)
        \/ SleepDone(o)

SpecTwo == InitTwo /\ [][NextTwo]_vars

(***************************************************************************)
(* Two calls of makeRequest whose attempts are answered with or without    *)
(* the rate-limit headers, a used-up quota (remaining: 0) among them.      *)
(***************************************************************************)
PairOk == {Response(200, h, TRUE, "card") : h \in ErrorHeaders}
PairRateLimited ==
    {Response(429, [h EXCEPT !.retryAfter = Hdr(<<"1">>)], FALSE, "card") :
        h \in ErrorHeaders}
PairErrors == {Response(st, h, TRUE, "card") : st \in {404, 500}, h \in ErrorHeaders}

NextPair ==
    \E o \in Ops :
        \/ Call(o)
        \/ \E response \in PairOk : RespondOk(o, response)
        \/ \E response \in PairRateLimited : RespondRateLimited(o, response)
        \/ \E response \in PairErrors : RespondError(o, response)
        \/ TimeoutFires(o)
        \/ SleepDone(o)

SpecPair == InitTwo /\ [][NextPair]_vars

(***************************************************************************)
(* The error classifier on its own: handleError applied to any failure     *)
(* value of FailureValues.                                                 *)
(***************************************************************************)
ErrorNames == {"Error", "TypeError", "AbortError"}
ErrorMessages == {<<"fetch", " failed">>, <<"boom">>}
AnyStatuses == {302, 400, 401, 403, 404, 418, 429, 500, 502, 503, 504}

FailureValues ==
    \* Error objects
    {[proto |-> p, name |-> n, message |-> m] :
        p \in ErrorProtos, n \in ErrorNames, m \in ErrorMessages}
    \* Error objects that carry a status property
    \cup {[proto |-> p, name |-> n, message |-> m, status |-> 404] :
            p \in ErrorProtos, n \in ErrorNames, m \in ErrorMessages}
    \* Response objects and plain objects with a status
    \cup {[proto |-> p, status |-> s, statusText |-> <<"reason">>] :
            p \in {"Response", "Object"}, s \in AnyStatuses}
    \cup {[proto |-> "Object", status |-> s] : s \in AnyStatuses}
    \* values with nothing the classifier looks for
    \cup {Undefined, [proto |-> "null"], [proto |-> "Object"],
          [proto |-> "string", str |-> <<"boom">>]}

InitClassify ==
    /\ ops = {}
    /\ pc = [o \in Ops |-> "idle"]
    /\ attempt = [o \in Ops |-> 0]
    /\ lastError = [o \in Ops |-> Undefined]
    /\ timer = [o \in Ops |-> FALSE]
    /\ log = [o \in Ops |-> <<>>]
    /\ outcomes = [o \in Ops |-> <<>>]
    /\ retval = [o \in Ops |-> NoValue]
    /\ thrown = [o \in Ops |-> NoValue]
    /\ failure \in FailureValues
    /\ classified = NoValue
    /\ UrlIdle
    /\ CacheIdle
    /\ ToolIdle

Classify ==
    /\ classified = NoValue
    /\ classified' = handleError(failure)
    /\ UNCHANGED <<failure, opVars, urlVars, cacheVars, toolVars>>

NextClassify == Classify

SpecClassify == InitClassify /\ [][NextClassify]_vars

(***************************************************************************)
(* buildURL on its own: one call on every combination of credentials,      *)
(* endpoint and params object.                                             *)
(***************************************************************************)
\* a params object has at most MaxParams entries
MaxParams == 2

ParamNames == {"name", "filter", "key", "token"}
ParamValues == {Undefined, Str(<<"f", "o", "o">>), Str(<<"a", " ", "b">>), Str(<<>>)}
Endpoints == {"/cards", "/boards/b1"}
Credentials == {[apiKey |-> <<"k">>, token |-> <<"t">>],
                [apiKey |-> <<"k", "+", "1">>, token |-> <<"t", "=">>]}

\* the entry sequences of the objects with at most n entries over ParamNames
RECURSIVE EntriesUpTo(_)
EntriesUpTo(n) ==
    IF n = 0 THEN {<<>>}
    ELSE LET shorter == EntriesUpTo(n - 1)
         IN  shorter \cup
             {Append(es, <<k, v>>) :
                es \in {e \in shorter : Len(e) = n - 1},
                k \in ParamNames, v \in ParamValues}

HasDistinctKeys(es) == \A i, j \in 1..Len(es) : es[i][1] = es[j][1] => i = j

ParamObjects ==
    {Undefined} \cup
    {[proto |-> "Object", entries |-> es] :
       es \in {e \in EntriesUpTo(MaxParams) : HasDistinctKeys(e)}}

InitURL ==
    /\ ops = {}
    /\ pc = [o \in Ops |-> "idle"]
    /\ attempt = [o \in Ops |-> 0]
    /\ lastError = [o \in Ops |-> Undefined]
    /\ timer = [o \in Ops |-> FALSE]
    /\ log = [o \in Ops |-> <<>>]
    /\ outcomes = [o \in Ops |-> <<>>]
    /\ retval = [o \in Ops |-> NoValue]
    /\ thrown = [o \in Ops |-> NoValue]
    /\ failure = Undefined
    /\ classified = NoValue
    /\ CacheIdle
    /\ ToolIdle
    /\ request \in [credentials : Credentials, endpoint : Endpoints, params : ParamObjects]
    /\ url = Undefined

BuildURL ==
    /\ request # Undefined
    /\ url = Undefined
    /\ url' = buildURL(request.credentials, request.endpoint, request.params)
    /\ UNCHANGED <<request, opVars, clsVars, cacheVars, toolVars>>

NextURL == BuildURL

SpecURL == InitURL /\ [][NextURL]_vars

(***************************************************************************)
(* The attachment cache and the resource reads that use it.  Time advances *)
(* in steps of TickMs; a timeout runs at its due time or any time later.   *)
(* Each read flow is one call of handleAttachmentResource, cut at its      *)
(* awaits: the metadata request and the download.                          *)
(***************************************************************************)
\* the TTL is TicksPerTTL clock steps long, and the clock makes MaxTicks steps
TicksPerTTL == 2
MaxTicks == 2
\* at most MaxPuts entries are registered, so at most MaxPuts timers created
MaxPuts == 2

TickMs == CACHE_TTL_MS \div TicksPerTTL

CardId == "card1"
FileNames == {<<"a">>, <<"a", " ">>}
\* attachment.name of the metadata Trello holds, which may be missing
AttachmentName(attachmentId) == IF attachmentId = "att1" THEN Hdr(<<"b">>) ELSE Absent
DownloadErrorStatuses == {403}

\* what client.getCardAttachment rejects with: makeRequest throws nothing but
\* what handleError returns
MetadataErrors ==
    {handleError(Response(404, NoRateLimitHeaders, TRUE, "card"))}

CS == [cache |-> fileAttachmentCache, timers |-> timeouts, disk |-> disk]

SetCS(cs) ==
    /\ fileAttachmentCache' = cs.cache
    /\ timeouts' = cs.timers
    /\ disk' = cs.disk

\* the metadata object of the result; cachedAt and expiresAt as numbers
Metadata(filePath, fileName, cardId, attachmentId, downloadedAt, cached) ==
    [filePath |-> filePath, fileName |-> fileName, cardId |-> cardId,
     attachmentId |-> attachmentId, cached |-> cached,
     cachedAt |-> downloadedAt, expiresAt |-> downloadedAt + CACHE_TTL_MS]

\* faulty variant: the path is computed again from the file name of the URI
HitMetadata_FromUri(cached, fileName) ==
    Metadata(StagedPath(cached.attachmentId, fileName), cached.fileName,
             cached.cardId, cached.attachmentId, cached.downloadedAt, TRUE)

\* the metadata returned for a valid entry; fileName is that of the URI
HitMetadata(cached, fileName) ==
    Metadata(cached.filePath, cached.fileName, cached.cardId,
             cached.attachmentId, cached.downloadedAt, TRUE)

\* lastPut once the put of the ids in as has been ended by a cleanup
Ended(as) ==
    [a \in AttachmentIds |->
        IF a \in as /\ lastPut[a] # Undefined
        THEN [lastPut[a] EXCEPT !.live = FALSE]
        ELSE lastPut[a]]

InitCache ==
    /\ ops = {}
    /\ pc = [o \in Ops |-> "idle"]
    /\ attempt = [o \in Ops |-> 0]
    /\ lastError = [o \in Ops |-> Undefined]
    /\ timer = [o \in Ops |-> FALSE]
    /\ log = [o \in Ops |-> <<>>]
    /\ outcomes = [o \in Ops |-> <<>>]
    /\ retval = [o \in Ops |-> NoValue]
    /\ thrown = [o \in Ops |-> NoValue]
    /\ failure = Undefined
    /\ classified = NoValue
    /\ UrlIdle
    /\ CacheIdle
    /\ ToolIdle

\* handleAttachmentResource up to its first await: the lookup, and either the
\* return of the cached metadata or the cleanup of a stale entry
ReadStart(r, a, f) ==
    /\ rpc[r] = "idle"
    /\ timerSeq + Cardinality({q \in Readers : rpc[q] # "idle"}) < MaxPuts
    /\ rthrown' = [rthrown EXCEPT ![r] = Undefined]
    /\ LET cached == getCachedFileAttachment(CS, a)
           uri == [cardId |-> CardId, attachmentId |-> a, fileName |-> f]
       IN  /\ rcached' = [rcached EXCEPT ![r] = cached]
           /\ IF cached # Undefined
              THEN IF isCacheValid(cached, now, disk)
                   THEN /\ rretval' = [rretval EXCEPT ![r] = HitMetadata(cached, f)]
                        /\ UNCHANGED <<rpc, ruri, storeVars, lastPut>>
                   ELSE /\ SetCS(cleanupFileAttachment(CS, a))
                        /\ lastPut' = Ended({a})
                        /\ rpc' = [rpc EXCEPT ![r] = "metadata"]
                        /\ ruri' = [ruri EXCEPT ![r] = uri]
                        /\ rretval' = [rretval EXCEPT ![r] = Undefined]
              ELSE /\ rpc' = [rpc EXCEPT ![r] = "metadata"]
                   /\ ruri' = [ruri EXCEPT ![r] = uri]
                   /\ rretval' = [rretval EXCEPT ![r] = Undefined]
                   /\ UNCHANGED <<storeVars, lastPut>>
    /\ lastCall' = NoCall
    /\ UNCHANGED <<opVars, clsVars, urlVars, toolVars, now, timerSeq, rattachment>>

\* client.getCardAttachment resolves with the attachment
MetadataOk(r) ==
    /\ rpc[r] = "metadata"
    /\ rattachment' = [rattachment EXCEPT ![r] =
                        [name |-> AttachmentName(ruri[r].attachmentId)]]
    /\ rpc' = [rpc EXCEPT ![r] = "download"]
    /\ lastCall' = NoCall
    /\ UNCHANGED <<opVars, clsVars, urlVars, toolVars, storeVars, now, timerSeq,
                   ruri, rcached, rretval, rthrown, lastPut>>

\* the locals of a flow that has left the download path
Leave(r) ==
    /\ rpc' = [rpc EXCEPT ![r] = "idle"]
    /\ ruri' = [ruri EXCEPT ![r] = Undefined]
    /\ rcached' = [rcached EXCEPT ![r] = Undefined]
    /\ rattachment' = [rattachment EXCEPT ![r] = Undefined]

\* a flow ends by throwing error
Throw(r, error) ==
    /\ rthrown' = [rthrown EXCEPT ![r] = error]
    /\ Leave(r)
    /\ lastCall' = NoCall
    /\ UNCHANGED <<opVars, clsVars, urlVars, toolVars, storeVars, now, timerSeq, rretval, lastPut>>

\* client.getCardAttachment resolves with no data
MetadataMissing(r) ==
    /\ rpc[r] = "metadata"
    /\ Throw(r, [proto |-> "Error", name |-> "Error",
                 message |-> <<"Attachment ", ruri[r].attachmentId,
                               " not found on card ", ruri[r].cardId>>])

\* client.getCardAttachment rejects
MetadataFails(r, error) ==
    /\ rpc[r] = "metadata"
    /\ Throw(r, error)

\* the download answers 2xx: the file is written, the entry registered with
\* its timer, and the metadata returned
DownloadOk(r) ==
    /\ rpc[r] = "download"
    /\ LET attachmentId == ruri[r].attachmentId
           filePath == StagedPath(attachmentId, ruri[r].fileName)
           written == [CS EXCEPT !.disk = @ \cup {filePath}]
           downloadedAt == now
           attachment == [filePath |-> filePath,
                          fileName |-> HdrOr(rattachment[r].name, ruri[r].fileName),
                          cardId |-> ruri[r].cardId,
                          attachmentId |-> attachmentId,
                          downloadedAt |-> downloadedAt]
       IN  /\ SetCS(cacheFileAttachment(written, attachment, timerSeq + 1, now))
           /\ timerSeq' = timerSeq + 1
           /\ lastPut' = [lastPut EXCEPT ![attachmentId] =
                            [entry |-> attachment, timer |-> timerSeq + 1, live |-> TRUE]]
           /\ rretval' = [rretval EXCEPT ![r] =
                            Metadata(filePath, attachment.fileName, attachment.cardId,
                                     attachmentId, downloadedAt, FALSE)]
    /\ Leave(r)
    /\ lastCall' = NoCall
    /\ UNCHANGED <<opVars, clsVars, urlVars, toolVars, now, rthrown>>

\* the download answers with a status that is not 2xx
DownloadNotOk(r, status) ==
    /\ rpc[r] = "download"
    /\ Throw(r, [proto |-> "Error", name |-> "Error",
                 message |-> <<"Failed to download attachment: ">>
                             \o Digits(status) \o <<" ", "reason">>])

\* the fetch of the download rejects
DownloadRejects(r) ==
    /\ rpc[r] = "download"
    /\ Throw(r, FetchFailed)

\* the callback of a cleanup timer runs
TimerFires(tm) ==
    /\ tm \in timeouts
    /\ now >= tm.due
    /\ SetCS(cleanupFileAttachment([CS EXCEPT !.timers = @ \ {tm}], tm.attachmentId))
    /\ lastPut' = IF lastPut[tm.attachmentId] # Undefined
                     /\ lastPut[tm.attachmentId].timer = tm.id
                  THEN Ended({tm.attachmentId})
                  ELSE lastPut
    /\ lastCall' = [op |-> "timer", id |-> tm.attachmentId,
                    flag |-> fileAttachmentCache[tm.attachmentId] # Undefined]
    /\ UNCHANGED <<opVars, clsVars, urlVars, toolVars, now, timerSeq, readVars>>

Tick ==
    /\ now + TickMs <= MaxTicks * TickMs
    /\ now' = now + TickMs
    /\ lastCall' = NoCall
    /\ UNCHANGED <<opVars, clsVars, urlVars, toolVars, storeVars, timerSeq, readVars, lastPut>>

\* a staged file is removed by something else than this process (the
\* specifications do so with the files of the entries held, the only files
\* the code looks for)
ExternalDelete(filePath) ==
    /\ filePath \in disk
    /\ disk' = disk \ {filePath}
    /\ lastCall' = NoCall
    /\ UNCHANGED <<opVars, clsVars, urlVars, toolVars, fileAttachmentCache, timeouts, now,
                   timerSeq, readVars, lastPut>>

\* the file of attachment a is staged under the file name f and registered:
\* writeFileSync and cacheFileAttachment as the download path calls them
Stage(a, f) ==
    /\ timerSeq < MaxPuts
    /\ LET filePath == StagedPath(a, f)
           written == [CS EXCEPT !.disk = @ \cup {filePath}]
           attachment == [filePath |-> filePath, fileName |-> f, cardId |-> CardId,
                          attachmentId |-> a, downloadedAt |-> now]
       IN  /\ SetCS(cacheFileAttachment(written, attachment, timerSeq + 1, now))
           /\ lastPut' = [lastPut EXCEPT ![a] =
                            [entry |-> attachment, timer |-> timerSeq + 1, live |-> TRUE]]
    /\ timerSeq' = timerSeq + 1
    /\ lastCall' = [op |-> "cacheFileAttachment", id |-> a, flag |-> TRUE]
    /\ UNCHANGED <<opVars, clsVars, urlVars, toolVars, now, readVars>>

\* a call of cleanupFileAttachment(a)
Invalidate(a) ==
    /\ SetCS(cleanupFileAttachment(CS, a))
    /\ lastPut' = Ended({a})
    /\ lastCall' = [op |-> "cleanupFileAttachment", id |-> a,
                    flag |-> fileAttachmentCache[a] # Undefined]
    /\ UNCHANGED <<opVars, clsVars, urlVars, toolVars, now, timerSeq, readVars>>

\* a call of clearFileAttachmentCache()
ClearAll ==
    /\ SetCS(clearFileAttachmentCache(CS))
    /\ lastPut' = Ended(AttachmentIds)
    /\ lastCall' = [op |-> "clearFileAttachmentCache", id |-> "",
                    flag |-> Cardinality(Keys(CS)) > 1]
    /\ UNCHANGED <<opVars, clsVars, urlVars, toolVars, now, timerSeq, readVars>>

\* a call of isCacheValid on the entry held for a
IsCacheValidCall(a) ==
    /\ fileAttachmentCache[a] # Undefined
    /\ lastCall' = [op |-> "isCacheValid", id |-> a,
                    flag |-> isCacheValid(fileAttachmentCache[a], now, disk)]
    /\ UNCHANGED <<opVars, clsVars, urlVars, toolVars, storeVars, now, timerSeq, readVars, lastPut>>

NextCache ==
    \/ \E r \in Readers, a \in AttachmentIds, f \in FileNames : ReadStart(r, a, f)
    \/ \E r \in Readers : MetadataOk(r)
    \/ \E r \in Readers : MetadataMissing(r)
    \/ \E r \in Readers, error \in MetadataErrors : MetadataFails(r, error)
    \/ \E r \in Readers : DownloadOk(r)
    \/ \E r \in Readers, status \in DownloadErrorStatuses : DownloadNotOk(r, status)
    \/ \E r \in Readers : DownloadRejects(r)
    \/ \E tm \in timeouts : TimerFires(tm)
    \/ Tick
    \/ \E a \in Keys(CS) : ExternalDelete(fileAttachmentCache[a].filePath)

SpecCache == InitCache /\ [][NextCache]_vars

\* the functions of the cache called one after the other, in any order
NextCacheOps ==
    \/ \E a \in AttachmentIds, f \in FileNames : Stage(a, f)
    \/ \E a \in AttachmentIds : Invalidate(a)
    \/ ClearAll
    \/ \E a \in AttachmentIds : IsCacheValidCall(a)
    \/ \E tm \in timeouts : TimerFires(tm)
    \/ Tick
    \/ \E a \in Keys(CS) : ExternalDelete(fileAttachmentCache[a].filePath)

SpecCacheOps == InitCache /\ [][NextCacheOps]_vars

(***************************************************************************)
(* A tool handler: createCard.callback.  It validates its arguments with   *)
(* createCardSchema, awaits client.createCard and renders the response;    *)
(* its catch block renders whatever was thrown.  The thirty other handlers *)
(* have the same catch block with another prefix.                          *)
(***************************************************************************)
\* the prototype of a value; an object literal has none of its own
ProtoOf(v) == IF "proto" \in DOMAIN v THEN v.proto ELSE "Object"

\* the string of n copies of the character c
RECURSIVE Rep(_, _)
Rep(c, n) == IF n = 0 THEN <<>> ELSE <<c>> \o Rep(c, n - 1)

IdLength == 24
HexChars == {"0", "1", "2", "3", "4", "5", "6", "7", "8", "9",
             "a", "b", "c", "d", "e", "f", "A", "B", "C", "D", "E", "F"}

\* /^[a-f0-9]{24}$/i
IsTrelloId(chars) ==
    Len(chars) = IdLength /\ \A i \in 1..Len(chars) : chars[i] \in HexChars

Issue(path, message) == [path |-> path, message |-> message]

\* createCardSchema.parse(data) on an object whose fields are strings: the
\* issues it finds, in the order of the schema's keys
createCardIssues(data) ==
    (IF Len(data.apiKey.str) < 1
     THEN <<Issue(<<"apiKey">>, <<"API key is required">>)>> ELSE <<>>)
    \o (IF Len(data.token.str) < 1
        THEN <<Issue(<<"token">>, <<"Token is required">>)>> ELSE <<>>)
    \o (IF Len(data.name.str) < 1
        THEN <<Issue(<<"name">>, <<"Card name is required">>)>> ELSE <<>>)
    \o (IF ~IsTrelloId(data.idList.str)
        THEN <<Issue(<<"idList">>, <<"Must be a valid 24-character Trello ID">>)>>
        ELSE <<>>)

ZodError(issues) == [proto |-> "ZodError", issues |-> issues]

\* parts.join(sep)
RECURSIVE Join(_, _)
Join(parts, sep) ==
    IF parts = <<>> THEN <<>>
    ELSE IF Len(parts) = 1 THEN Head(parts)
    ELSE Head(parts) \o <<sep>> \o Join(Tail(parts), sep)

formatValidationError(error) ==
    LET issue(i) ==
            (IF Len(error.issues[i].path) > 0
             THEN Join([k \in 1..Len(error.issues[i].path) |->
                            <<error.issues[i].path[k]>>], ".") \o <<": ">>
             ELSE <<>>) \o error.issues[i].message
    IN <<"Validation error: ">>
       \o Join([i \in 1..Len(error.issues) |-> issue(i)], ", ")

\* the catch block of createCard.callback
createCardCatch(error) ==
    LET errorMessage ==
            IF ProtoOf(error) = "ZodError" THEN formatValidationError(error)
            ELSE IF ProtoOf(error) \in ErrorProtos
            THEN error.message
            ELSE <<"Unknown error occurred">>
    IN [content |-> <<[type |-> "text",
                       text |-> <<"Error creating card: ">> \o errorMessage]>>,
        isError |-> TRUE]

\* the try block of createCard.callback after the await, for a response whose
\* data is a card
createCardResult(response) ==
    [content |-> <<[type |-> "text",
                    text |-> <<"{ summary: Created card: ">>
                             \o response.data.name \o <<", card: ... }">>]>>]

ToolStrings == {<<>>, <<"k">>}
CardNames == {<<>>, <<"c">>, <<"c", "d">>}
ListIds == {Rep("a", IdLength), Rep("A", IdLength), Rep("0", IdLength),
            Rep("a", IdLength - 1), Rep("g", IdLength)}

ToolArguments ==
    {[proto |-> "Object", apiKey |-> Str(k), token |-> Str(t),
      name |-> Str(n), idList |-> Str(l)] :
        k \in ToolStrings, t \in ToolStrings, n \in CardNames, l \in ListIds}

\* what makeRequest rejects with: handleError of the last failure
TrelloErrors ==
    {handleError(f) : f \in ErrorResponses \cup RateLimitedResponses
                            \cup FetchRejections \cup {AbortError, Undefined}}

\* what response.json() can give for the body of a 2xx response
CardData(args) == {[proto |-> "Object", name |-> args.name.str], [proto |-> "null"]}

InitTool ==
    /\ ops = {}
    /\ pc = [o \in Ops |-> "idle"]
    /\ attempt = [o \in Ops |-> 0]
    /\ lastError = [o \in Ops |-> Undefined]
    /\ timer = [o \in Ops |-> FALSE]
    /\ log = [o \in Ops |-> <<>>]
    /\ outcomes = [o \in Ops |-> <<>>]
    /\ retval = [o \in Ops |-> NoValue]
    /\ thrown = [o \in Ops |-> NoValue]
    /\ failure = Undefined
    /\ classified = NoValue
    /\ UrlIdle
    /\ CacheIdle
    /\ ToolIdle

\* the handler is called: validateCreateCard throws into the catch block, or
\* the handler awaits client.createCard
ToolCall(args) ==
    /\ tpc = "idle"
    /\ targs' = args
    /\ LET issues == createCardIssues(args)
       IN IF issues # <<>>
          THEN /\ tcaught' = ZodError(issues)
               /\ tresult' = createCardCatch(ZodError(issues))
               /\ tpc' = "returned"
          ELSE /\ tpc' = "awaiting"
               /\ UNCHANGED <<tcaught, tresult>>
    /\ UNCHANGED <<opVars, clsVars, urlVars, cacheVars>>

\* client.createCard resolves: the card is rendered, and reading a property
\* of a null body throws a TypeError into the catch block
ToolResolves(response) ==
    /\ tpc = "awaiting"
    /\ tpc' = "returned"
    /\ IF response.data.proto = "null"
       THEN LET error == [proto |-> "TypeError", name |-> "TypeError",
                          message |-> <<"Cannot read properties of null (reading 'name')">>]
            IN /\ tcaught' = error
               /\ tresult' = createCardCatch(error)
       ELSE /\ tresult' = createCardResult(response)
            /\ UNCHANGED tcaught
    /\ UNCHANGED <<opVars, clsVars, urlVars, cacheVars, targs>>

\* client.createCard rejects with a Typed Error
ToolRejects(error) ==
    /\ tpc = "awaiting"
    /\ tpc' = "returned"
    /\ tcaught' = error
    /\ tresult' = createCardCatch(error)
    /\ UNCHANGED <<opVars, clsVars, urlVars, cacheVars, targs>>

NextTool ==
    \/ \E args \in ToolArguments : ToolCall(args)
    \/ /\ tpc = "awaiting"
       /\ \E data \in CardData(targs) :
               ToolResolves([data |-> data, rateLimit |-> Undefined])
    \/ \E error \in TrelloErrors : ToolRejects(error)

SpecTool == InitTool /\ [][NextTool]_vars

(***************************************************************************)
(* Vocabulary of the properties.                                           *)
(***************************************************************************)
\* the number of HTTP attempts operation o has issued
NumFetches(o) == Cardinality({i \in 1..Len(log[o]) : log[o][i].ev = "fetch"})

\* the sleeps operation o started after its attempt n, in order
RECURSIVE SleepsIn(_, _)
SleepsIn(lg, n) ==
    IF lg = <<>> THEN <<>>
    ELSE IF Head(lg).ev = "sleep" /\ Head(lg).attempt = n
    THEN <<Head(lg)>> \o SleepsIn(Tail(lg), n)
    ELSE SleepsIn(Tail(lg), n)

SleepsAfter(o, n) == SleepsIn(log[o], n)

Settled(o) == pc[o] \in {"resolved", "rejected"}

IsResponse(out) == out.proto = "Response"
IsStatus(out, s) == IsResponse(out) /\ out.status = s

\* the classes of attempt outcomes the retry policy distinguishes
Is2xx(out) == IsResponse(out) /\ out.status \in 200..299
IsSuccess(out) == Is2xx(out) /\ out.bodyOk
Is429(out) == IsStatus(out, 429)
Is4xxNot429(out) == IsResponse(out) /\ out.status \in 400..499 /\ out.status # 429
Is5xx(out) == IsResponse(out) /\ out.status \in 500..599
IsNetworkFailure(out) == out = FetchFailed
IsTimeout(out) == out = AbortError
IsRetryable(out) ==
    Is429(out) \/ Is5xx(out) \/ IsNetworkFailure(out) \/ IsTimeout(out)

\* every attempt of o so far ended with an outcome of class P
AllOutcomes(o, P(_)) ==
    outcomes[o] # <<>> /\ \A i \in 1..Len(outcomes[o]) : P(outcomes[o][i])

\* the last event of o's log
LastEvent(o) == log[o][Len(log[o])]

(***************************************************************************)
(* C1: one logical operation issues at most 3 HTTP attempts whatever the   *)
(* upstream answers, and an attempt answered with 429 is one of the 3.     *)
(***************************************************************************)
C1_AtMostThreeAttempts ==
    \A o \in Ops :
        /\ NumFetches(o) <= 3
        /\ Len(outcomes[o]) <= NumFetches(o)
        /\ Cardinality({i \in 1..Len(outcomes[o]) : Is429(outcomes[o][i])}) <= 3
        /\ \A i \in 1..Len(log[o]) : log[o][i].attempt \in 1..3

\* three attempts, all answered 429, and the operation is over
C1_Witness ==
    \E o \in Ops :
        /\ Settled(o)
        /\ NumFetches(o) = 3
        /\ Len(outcomes[o]) = 3
        /\ AllOutcomes(o, Is429)

(***************************************************************************)
(* C2: if every attempt returns the same status of {500, 502, 503, 504},   *)
(* exactly 3 attempts are made (a backoff after the first two) and the     *)
(* operation fails with code SERVER_ERROR.                                 *)
(***************************************************************************)
C2_ServerErrorAfterThree ==
    \A o \in Ops : \A s \in {500, 502, 503, 504} :
        LET IsS(out) == IsStatus(out, s) IN
        (Settled(o) /\ AllOutcomes(o, IsS)) =>
            /\ pc[o] = "rejected"
            /\ NumFetches(o) = 3
            /\ Len(SleepsAfter(o, 1)) = 1 /\ Len(SleepsAfter(o, 2)) = 1
            /\ thrown[o].code = "SERVER_ERROR"

(***************************************************************************)
(* C3: an attempt that ends with a 4xx status other than 429, or with any  *)
(* failure that is not network, timeout, 5xx or 429, ends the operation on *)
(* that attempt: no sleep, no further attempt; a 404 on the first attempt  *)
(* gives NOT_FOUND after exactly one attempt.                              *)
(***************************************************************************)
C3_NoRetryOfClientErrors ==
    \A o \in Ops : \A i \in 1..Len(outcomes[o]) :
        LET out == outcomes[o][i] IN
        (Is4xxNot429(out) \/ (~IsSuccess(out) /\ ~IsRetryable(out))) =>
            /\ pc[o] = "rejected"
            /\ i = Len(outcomes[o])
            /\ NumFetches(o) = i
            /\ SleepsAfter(o, i) = <<>>
            /\ LastEvent(o) = FetchEvent(i)
            /\ (IsStatus(out, 404) /\ i = 1) =>
                   (thrown[o].code = "NOT_FOUND" /\ log[o] = <<FetchEvent(1)>>)

\* a 403 on the second attempt, after a retried failure
C3_Witness ==
    \E o \in Ops :
        /\ Len(outcomes[o]) = 2
        /\ IsRetryable(outcomes[o][1])
        /\ IsStatus(outcomes[o][2], 403)
        /\ pc[o] = "rejected"

(***************************************************************************)
(* C4: if every attempt fails with a network failure, exactly 3 attempts   *)
(* are made and the operation fails with NETWORK_ERROR; if every attempt   *)
(* is aborted by the timeout, exactly 3 attempts and TIMEOUT_ERROR.        *)
(***************************************************************************)
C4_NetworkAndTimeoutExhaust ==
    \A o \in Ops :
        /\ (Settled(o) /\ AllOutcomes(o, IsNetworkFailure)) =>
              /\ pc[o] = "rejected"
              /\ NumFetches(o) = 3 /\ Len(outcomes[o]) = 3
              /\ thrown[o].code = "NETWORK_ERROR"
        /\ (Settled(o) /\ AllOutcomes(o, IsTimeout)) =>
              /\ pc[o] = "rejected"
              /\ NumFetches(o) = 3 /\ Len(outcomes[o]) = 3
              /\ thrown[o].code = "TIMEOUT_ERROR"

\* three timeouts in a row, the operation over
C4_Witness ==
    \E o \in Ops :
        /\ pc[o] = "rejected"
        /\ Len(outcomes[o]) = 3
        /\ AllOutcomes(o, IsTimeout)

\* the events of o's log that belong to attempt n, in order
RECURSIVE EventsIn(_, _)
EventsIn(lg, n) ==
    IF lg = <<>> THEN <<>>
    ELSE IF Head(lg).attempt = n THEN <<Head(lg)>> \o EventsIn(Tail(lg), n)
    ELSE EventsIn(Tail(lg), n)

EventsOf(o, n) == EventsIn(log[o], n)

\* a 429 response whose retry-after header is the decimal number r
Is429After(out, r) == Is429(out) /\ out.headers.retryAfter = Hdr(Digits(r))

(***************************************************************************)
(* C5: a 429 with retry-after: r on an attempt that is not the last is     *)
(* followed by one sleep of r*1000 ms, with no backoff sleep, and then by  *)
(* the next attempt; 429 (retry-after: 1) then 200 is a success after one  *)
(* wait of 1000 ms and 2 attempts.                                         *)
(***************************************************************************)
C5_RetryAfterWait ==
    \A o \in Ops :
        /\ \A i \in 1..Len(outcomes[o]) : \A r \in 0..MaxRetryAfter :
              (Is429After(outcomes[o][i], r) /\ i < 3) =>
                  /\ EventsOf(o, i) =
                        <<FetchEvent(i), SleepEvent(i, "retry-after", Num(r * 1000))>>
                  /\ \/ pc[o] = "sleeping" /\ i = Len(outcomes[o])
                     \/ EventsOf(o, i + 1) # <<>> /\
                        Head(EventsOf(o, i + 1)) = FetchEvent(i + 1)
        /\ (Len(outcomes[o]) = 2 /\ Is429After(outcomes[o][1], 1)
              /\ IsSuccess(outcomes[o][2])) =>
              /\ pc[o] = "resolved"
              /\ log[o] = <<FetchEvent(1),
                            SleepEvent(1, "retry-after", Num(1000)),
                            FetchEvent(2)>>

\* 429 with retry-after: 1, then a 200 with a body, and the call has returned
C5_Witness ==
    \E o \in Ops :
        /\ Len(outcomes[o]) = 2
        /\ Is429After(outcomes[o][1], 1)
        /\ IsStatus(outcomes[o][2], 200) /\ IsSuccess(outcomes[o][2])
        /\ pc[o] = "resolved"

\* the failure value an attempt's outcome raises in the loop body
FailureOf(out) == IF Is2xx(out) THEN JsonSyntaxError ELSE out

(***************************************************************************)
(* C6: when three attempts were made and none succeeded, the error thrown  *)
(* is the classification of the third attempt's failure: three 429 give    *)
(* RATE_LIMIT_EXCEEDED with status 429, and so does 500, 500, 429.         *)
(***************************************************************************)
C6_LastFailureClassified ==
    \A o \in Ops :
        (pc[o] = "rejected" /\ Len(outcomes[o]) = 3) =>
            /\ thrown[o].code = handleError(FailureOf(outcomes[o][3])).code
            /\ Is429(outcomes[o][3]) =>
                  /\ thrown[o].code = "RATE_LIMIT_EXCEEDED"
                  /\ "status" \in DOMAIN thrown[o]
                  /\ thrown[o].status = 429

\* the number of attempts 1..n of o that were not answered with 429
NonRateLimited(o, n) ==
    Cardinality({i \in 1..n : ~Is429(outcomes[o][i])})

IsBackoff(e) == e.ev = "sleep" /\ e.kind = "backoff"

(***************************************************************************)
(* C7 as stated: the backoff after the k-th retryable failure that is not  *)
(* a 429 is min(1000*2^(k-1), 10000) ms, however many 429 came before.     *)
(***************************************************************************)
C7_BackoffSkips429 ==
    \A o \in Ops : \A j \in 1..Len(log[o]) :
        IsBackoff(log[o][j]) =>
            LET k == NonRateLimited(o, log[o][j].attempt)
            IN  log[o][j].ms = Num(Min(1000 * 2 ^ (k - 1), 10000))

(***************************************************************************)
(* C7 amended: a 429 wait is no backoff delay, but the attempt it used     *)
(* counts in the schedule: the backoff after a retryable failure that is   *)
(* not a 429, at attempt n < 3, is min(1000*2^(n-1), 10000) ms, n being    *)
(* the attempt number with the attempts answered 429 counted.              *)
(***************************************************************************)
C7_BackoffByAttemptNumber ==
    \A o \in Ops :
        /\ \A j \in 1..Len(log[o]) :
              IsBackoff(log[o][j]) =>
                  LET n == log[o][j].attempt
                  IN  /\ log[o][j].ms = Num(Min(1000 * 2 ^ (n - 1), 10000))
                      /\ IsRetryable(outcomes[o][n]) /\ ~Is429(outcomes[o][n])
        /\ \A n \in 1..Len(outcomes[o]) :
              (n < 3 /\ IsRetryable(outcomes[o][n]) /\ ~Is429(outcomes[o][n])) =>
                  SleepsAfter(o, n) =
                      <<SleepEvent(n, "backoff", Num(Min(1000 * 2 ^ (n - 1), 10000)))>>

\* 429 on attempt 1, 500 on attempt 2, and the backoff that follows is 2000 ms
C7_Witness ==
    \E o \in Ops :
        /\ Len(outcomes[o]) >= 2
        /\ Is429(outcomes[o][1])
        /\ IsStatus(outcomes[o][2], 500)
        /\ SleepsAfter(o, 2) = <<SleepEvent(2, "backoff", Num(2000))>>

ErrorCodes ==
    {"NETWORK_ERROR", "TIMEOUT_ERROR", "INVALID_CREDENTIALS",
     "INSUFFICIENT_PERMISSIONS", "NOT_FOUND", "RATE_LIMIT_EXCEEDED",
     "SERVER_ERROR", "API_ERROR", "UNKNOWN_ERROR"}

\* a value of the shape {message, code, status?, error?} with a code of the
\* enumeration; a raw exception or Response has a proto and is none
IsTypedError(e) ==
    /\ {"message", "code"} \subseteq DOMAIN e
    /\ DOMAIN e \subseteq {"message", "code", "status", "error"}
    /\ e.code \in ErrorCodes

(***************************************************************************)
(* C8: whatever makeRequest rejects with, on either exit of the retry      *)
(* loop, is a Typed Error with one of the nine codes, never the raw        *)
(* exception, the raw Response or the body-parse exception; and it rejects *)
(* with nothing unless it has failed.                                      *)
(***************************************************************************)
C8_OnlyTypedErrors ==
    \A o \in Ops :
        /\ pc[o] = "rejected" => IsTypedError(thrown[o])
        /\ pc[o] # "rejected" => thrown[o] = NoValue

\* a 2xx whose body does not parse has ended the operation
C8_Witness ==
    \E o \in Ops :
        /\ pc[o] = "rejected"
        /\ Is2xx(outcomes[o][Len(outcomes[o])])
        /\ ~IsSuccess(outcomes[o][Len(outcomes[o])])
        /\ thrown[o].code = "UNKNOWN_ERROR"

(***************************************************************************)
(* C9: the classifier returns one Typed Error for every failure value, the *)
(* first matching rule deciding: network failure, then timeout/abort, then *)
(* a value with an HTTP status (401, 403, 404, 429, 500 by the table, any  *)
(* other status API_ERROR with message HTTP <status> error, the status     *)
(* field set), and UNKNOWN_ERROR with the original message in the error    *)
(* field for anything else.                                                *)
(***************************************************************************)
C9_Classifier ==
    classified # NoValue =>
        LET f == failure
            e == classified
            network == f.proto = "TypeError" /\ Includes(f.message, "fetch")
            abort == f.proto \in ErrorProtos /\ f.name = "AbortError"
            hasStatus == IsObject(f) /\ "status" \in DOMAIN f
        IN  /\ IsTypedError(e)
            /\ IF network THEN e.code = "NETWORK_ERROR"
               ELSE IF abort THEN e.code = "TIMEOUT_ERROR"
               ELSE IF hasStatus
               THEN /\ "status" \in DOMAIN e /\ e.status = f.status
                    /\ f.status = 401 => e.code = "INVALID_CREDENTIALS"
                    /\ f.status = 403 => e.code = "INSUFFICIENT_PERMISSIONS"
                    /\ f.status = 404 => e.code = "NOT_FOUND"
                    /\ f.status = 429 => e.code = "RATE_LIMIT_EXCEEDED"
                    /\ f.status = 500 => e.code = "SERVER_ERROR"
                    /\ f.status \notin {401, 403, 404, 429, 500} =>
                          /\ e.code = "API_ERROR"
                          /\ e.message = <<"HTTP ">> \o Digits(f.status) \o <<" error">>
               ELSE /\ e.code = "UNKNOWN_ERROR"
                    /\ "error" \in DOMAIN e
                    /\ "message" \in DOMAIN f => e.error = f.message
                    /\ f.proto = "string" => e.error = f.str

\* an Error named AbortError that also carries a status is a timeout
C9_Witness ==
    /\ classified # NoValue
    /\ failure.proto \in ErrorProtos
    /\ "status" \in DOMAIN failure
    /\ failure.name = "AbortError"
    /\ ~Includes(failure.message, "fetch")
    /\ classified.code = "TIMEOUT_ERROR"

(***************************************************************************)
(* C10: a 2xx response whose body parses ends the operation at once with   *)
(* {data, rateLimit}: no further attempt, no sleep, and exactly one        *)
(* request when it is the first attempt; rateLimit is read from that same  *)
(* response and is absent when it has no rate-limit headers.               *)
(***************************************************************************)
C10_SuccessEndsOperation ==
    \A o \in Ops : \A i \in 1..Len(outcomes[o]) :
        LET out == outcomes[o][i] IN
        IsSuccess(out) =>
            /\ pc[o] = "resolved"
            /\ i = Len(outcomes[o])
            /\ NumFetches(o) = i
            /\ SleepsAfter(o, i) = <<>>
            /\ LastEvent(o) = FetchEvent(i)
            /\ i = 1 => log[o] = <<FetchEvent(1)>>
            /\ DOMAIN retval[o] = {"data", "rateLimit"}
            /\ retval[o].data = out.body
            /\ (~out.headers.limit.present /\ ~out.headers.remaining.present
                  /\ ~out.headers.reset.present) =>
                  retval[o].rateLimit = NoRateLimit
            /\ (out.headers.limit = Hdr(<<"3", "0", "0">>)
                  /\ out.headers.remaining = Hdr(<<"7">>)
                  /\ out.headers.reset = Hdr(<<"9">>)) =>
                  retval[o].rateLimit =
                      [limit |-> Num(300), remaining |-> Num(7), resetTime |-> Num(9)]

\* a 201 without rate-limit headers on the first attempt, and the call returned
C10_Witness ==
    \E o \in Ops :
        /\ pc[o] = "resolved"
        /\ Len(outcomes[o]) = 1
        /\ IsStatus(outcomes[o][1], 201)
        /\ outcomes[o][1].headers = NoRateLimitHeaders
        /\ retval[o].rateLimit = NoRateLimit

(***************************************************************************)
(* Query strings.                                                          *)
(***************************************************************************)
\* the URL carries the pair name=value (value given unencoded)
Carries(u, name, value) ==
    \E i \in 1..Len(u.query) : u.query[i] = <<name, FormEncode(value)>>

\* the URL carries some pair of that name
HasParam(u, name) == \E i \in 1..Len(u.query) : u.query[i][1] = name

\* the entries of the params object of the call (none when it was omitted)
EntriesOf(req) == IF req.params = Undefined THEN <<>> ELSE req.params.entries

PutFields(entry) ==
    [filePath |-> entry.filePath, fileName |-> entry.fileName,
     cardId |-> entry.cardId, attachmentId |-> entry.attachmentId,
     downloadedAt |-> entry.downloadedAt]

\* get(a): what getCachedFileAttachment returns now
Get(a) == getCachedFileAttachment(CS, a)

\* C12: after put(entry for A), get(A) returns an entry with the fields of
\* that put until the TTL of that put has run out (its cleanup timer has
\* fired) or invalidate(A) or clearAll has been called, and not before; after
\* either, get(A) returns absent.
C12_EntryHeldUntilTTLOrInvalidate ==
    \A a \in AttachmentIds :
        lastPut[a] # Undefined =>
            /\ lastPut[a].live /\ now - lastPut[a].entry.downloadedAt < CACHE_TTL_MS
                  => /\ Get(a) # Undefined
                     /\ PutFields(Get(a)) = lastPut[a].entry
            /\ ~lastPut[a].live => Get(a) = Undefined

\* the last step was a call of isCacheValid on the entry held for a
ValidityAsked(a) == lastCall.op = "isCacheValid" /\ lastCall.id = a

Age(entry) == now - entry.downloadedAt

\* C13: isCacheValid(entry) is true exactly when now - downloadedAt < TTL
\* and the file of the entry exists: false from now - downloadedAt = TTL on
\* even with the file in place, false when the file is gone before the TTL;
\* and the call changes neither the map, nor the timers, nor the disk.
C13_ValidIffFreshAndOnDisk ==
    /\ [](\A a \in AttachmentIds :
            ValidityAsked(a) =>
                /\ lastCall.flag <=> /\ Age(Get(a)) < CACHE_TTL_MS
                                     /\ Get(a).filePath \in disk
                /\ Age(Get(a)) >= CACHE_TTL_MS => ~lastCall.flag
                /\ Get(a).filePath \notin disk => ~lastCall.flag)
    /\ [][\A a \in AttachmentIds : IsCacheValidCall(a) => UNCHANGED storeVars]_vars

\* an entry asked about exactly at the end of its TTL, its file in place
C13_Witness ==
    \E a \in AttachmentIds :
        /\ ValidityAsked(a)
        /\ Age(Get(a)) = CACHE_TTL_MS
        /\ Get(a).filePath \in disk
        /\ ~lastCall.flag

\* the last step was a call of cleanupFileAttachment(a)
Invalidated(a) == lastCall.op = "cleanupFileAttachment" /\ lastCall.id = a

\* the timer of an entry is pending
TimerPending(entry) == \E tm \in timeouts : tm.id = entry.cleanupTimer

\* C14: cleanupFileAttachment(A) cancels the timer of A's entry, deletes its
\* file if it is there and removes the entry; on an id that holds no entry,
\* as right after another cleanupFileAttachment(A), it changes nothing; and
\* no entry, file or timer of another attachment is touched.
C14_InvalidateIsIdempotent ==
    [][\A a \in AttachmentIds :
         Invalidate(a) =>
            LET entry == fileAttachmentCache[a]
            IN  /\ fileAttachmentCache'[a] = Undefined
                /\ \A b \in AttachmentIds \ {a} :
                      fileAttachmentCache'[b] = fileAttachmentCache[b]
                /\ IF entry = Undefined
                   THEN UNCHANGED storeVars
                   ELSE /\ timeouts' = {tm \in timeouts : tm.id # entry.cleanupTimer}
                        /\ disk' = disk \ {entry.filePath}
                /\ Invalidated(a) => UNCHANGED storeVars]_vars

\* an entry has just been invalidated while another attachment keeps its
\* entry, its file and its pending timer
C14_Witness ==
    \E a \in AttachmentIds, b \in AttachmentIds :
        /\ a # b
        /\ Invalidated(a)
        /\ lastCall.flag
        /\ Get(b) # Undefined
        /\ TimerPending(Get(b))
        /\ Get(b).filePath \in disk

Valid(a) ==
    /\ Get(a) # Undefined
    /\ Age(Get(a)) < CACHE_TTL_MS
    /\ Get(a).filePath \in disk

\* the last read of flow r has returned metadata
Returned(r) == rpc[r] = "idle" /\ rretval[r] # Undefined

\* the last read of flow r was served from the cache
Hit(r) == Returned(r) /\ rretval[r].cached

\* C16: a read that finds a present and valid entry ends at once, with no
\* metadata request and no download, leaves the map, the timers and the
\* disk as they are, and returns metadata with cached: true and the
\* filePath of the entry; two reads served from the same entry return the
\* same filePath.
C16_HitServesTheEntry ==
    /\ [][\A r \in Readers, a \in AttachmentIds, f \in FileNames :
            ReadStart(r, a, f) /\ Valid(a) =>
                /\ rpc'[r] = "idle"
                /\ UNCHANGED <<storeVars, timerSeq>>
                /\ rretval'[r] # Undefined
                /\ rretval'[r].cached
                /\ rretval'[r].filePath = Get(a).filePath]_vars
    /\ [](\A r1 \in Readers, r2 \in Readers :
            Hit(r1) /\ Hit(r2) /\ rcached[r1] = rcached[r2]
                => rretval[r1].filePath = rretval[r2].filePath)

\* two reads have been served from one entry
C16_Witness ==
    /\ Hit(1)
    /\ Hit(2)
    /\ rcached[1] = rcached[2]
    /\ rretval[1].filePath = rcached[1].filePath

\* the read of flow r has found an entry that was not valid and is on its
\* download path
FoundStale(r) == rpc[r] # "idle" /\ rcached[r] # Undefined

Failed(r) == rpc[r] = "idle" /\ rthrown[r] # Undefined

\* C18: when the metadata request or the download of a read fails, the read
\* has created no entry and scheduled no timer, a stale entry it found at its
\* start stays removed, and what it throws is a Typed Error, a value with a
\* code of the closed enumeration, at both failure points.
C18_FailedReadThrowsTypedError ==
    \A r \in Readers :
        /\ FoundStale(r) => Get(rcached[r].attachmentId) # rcached[r]
        /\ Failed(r) =>
              /\ IsTypedError(rthrown[r])
              /\ rretval[r] = Undefined
              /\ timerSeq = 0 =>
                    /\ timeouts = {}
                    /\ \A a \in AttachmentIds : Get(a) = Undefined

(***************************************************************************)
(* Termination and sequencing of the retry loop.                           *)
(***************************************************************************)
\* C19: every operation that has been started ends, as long as each of its
\* attempts and each of its sleeps ends: it resolves, or it rejects on a
\* failure that is not retried or after its last attempt, also when every
\* answer is a 429; and once it has ended it stays as it ended.
C19_EveryOperationEnds ==
    /\ \A o \in Ops : (pc[o] \in {"fetching", "sleeping"}) ~> Settled(o)
    /\ [][\A o \in Ops : Settled(o) => pc'[o] = pc[o]]_vars

\* an operation that was answered 429 on each of its attempts has ended
C19_Witness ==
    \E o \in Ops :
        /\ pc[o] = "rejected"
        /\ Len(outcomes[o]) = maxRetries
        /\ AllOutcomes(o, Is429)

\* the positions of the fetches in o's log
FetchPositions(o) == {i \in 1..Len(log[o]) : log[o][i].ev = "fetch"}

\* C20: the attempts of one operation are strictly sequential: at most one
\* is in flight, and one is in flight exactly while the operation is
\* fetching; the attempts are numbered 1, 2, ... in steps of one; attempt
\* n+1 is issued only when the outcome of attempt n is known and the wait
\* that followed it (backoff or retry-after) is over, and no attempt is in
\* flight during a wait.
C20_AttemptsAreSequential ==
    \A o \in Ops :
        /\ NumFetches(o) - Len(outcomes[o]) = (IF pc[o] = "fetching" THEN 1 ELSE 0)
        /\ \A i \in FetchPositions(o) :
              LET n == Cardinality({j \in FetchPositions(o) : j < i})
              IN  /\ log[o][i].attempt = n + 1
                  /\ n >= 1 =>
                        /\ log[o][i - 1].ev = "sleep"
                        /\ log[o][i - 1].attempt = n
                        /\ Len(outcomes[o]) >= n
        /\ pc[o] = "sleeping" =>
              /\ LastEvent(o).ev = "sleep"
              /\ LastEvent(o).attempt = NumFetches(o)
              /\ Len(outcomes[o]) = NumFetches(o)
              /\ ~timer[o]

\* a third attempt is in flight, after a backoff wait and a retry-after wait
C20_Witness ==
    \E o \in Ops :
        /\ pc[o] = "fetching"
        /\ NumFetches(o) = 3
        /\ Len(outcomes[o]) = 2
        /\ \E i, j \in 1..Len(log[o]) :
              /\ log[o][i].ev = "sleep" /\ log[o][i].kind = "backoff"
              /\ log[o][j].ev = "sleep" /\ log[o][j].kind # "backoff"

(***************************************************************************)
(* Concurrent operations.                                                  *)
(***************************************************************************)
\* all the state makeRequest keeps for the call o
OpState(o) ==
    <<pc[o], attempt[o], lastError[o], timer[o], log[o], outcomes[o],
      retval[o], thrown[o]>>

\* C21: with two operations under way at once, in any interleaving, the
\* attempt count, the waits and the result of each depend on the outcomes of
\* its own attempts only: a step of one operation leaves the state of the
\* other as it is, two operations that have seen the same outcomes and are
\* at the same point have issued the same fetches and waits and have the
\* same result, and each has a budget of 3 attempts of its own.
C21_OperationsAreIndependent ==
    /\ [][\A o \in Ops, p \in Ops :
            o # p /\ OpState(o)' # OpState(o) => OpState(p)' = OpState(p)]_vars
    /\ [](\A o \in Ops, p \in Ops :
            outcomes[o] = outcomes[p] /\ pc[o] = pc[p] => OpState(o) = OpState(p))
    /\ [](\A o \in Ops :
            /\ NumFetches(o) <= maxRetries
            /\ attempt[o] <= maxRetries + 1
            /\ pc[o] = "fetching" => attempt[o] = Len(outcomes[o]) + 1)

\* one operation has used up its three attempts on 429 answers and the
\* other has resolved on its first attempt
C21_Witness ==
    \E o \in Ops, p \in Ops :
        /\ pc[o] = "rejected"
        /\ Len(outcomes[o]) = maxRetries
        /\ AllOutcomes(o, Is429)
        /\ pc[p] = "resolved"
        /\ Len(outcomes[p]) = 1

\* message is a part of text
Within(message, text) ==
    \E k \in 1..(Len(text) + 1) :
        /\ k + Len(message) - 1 <= Len(text)
        /\ SubSeq(text, k, k + Len(message) - 1) = message

\* the handler returned from its catch block
Caught == tpc = "returned" /\ tcaught # Undefined

IsValidationError(error) == ProtoOf(error) = "ZodError"

\* C22: when the client method rejects with a Typed Error, or the arguments
\* fail validation, the handler returns a result with isError: true whose
\* text carries the message of that error: the message field of the Typed
\* Error, or the message of every validation issue.  The handler always
\* returns, so nothing escapes it.
C22_HandlerRendersTheError ==
    Caught /\ (tcaught \in TrelloErrors \/ IsValidationError(tcaught)) =>
        /\ "isError" \in DOMAIN tresult /\ tresult.isError
        /\ IF IsValidationError(tcaught)
           THEN \A i \in 1..Len(tcaught.issues) :
                    Within(tcaught.issues[i].message, tresult.content[1].text)
           ELSE Within(tcaught.message, tresult.content[1].text)

\* the attempt numbers the delay is computed for
MaxAttemptNumber == 6

\* the position in o's log of the sleep started after attempt n
SleepPosition(o, n) ==
    CHOOSE j \in 1..Len(log[o]) : log[o][j].ev = "sleep" /\ log[o][j].attempt = n

IsBackoffFailure(out) == IsNetworkFailure(out) \/ IsTimeout(out) \/ Is5xx(out)

\* C23: a network error, a timeout or a 5xx at attempt n < 3 is followed by
\* one sleep of min(1000 * 2^(n-1), 10000) ms, that is 1000 ms after attempt
\* 1 and 2000 ms after attempt 2, and attempt n+1 is what comes next; and for
\* every attempt number n >= 1 the computed delay is that minimum, at least
\* 1000 and at most 10000 ms.
C23_BackoffDelayValues ==
    /\ \A o \in Ops : \A n \in 1..Len(outcomes[o]) :
          n < 3 /\ IsBackoffFailure(outcomes[o][n]) =>
              /\ SleepsAfter(o, n) =
                    <<SleepEvent(n, "backoff", Num(IF n = 1 THEN 1000 ELSE 2000))>>
              /\ LET j == SleepPosition(o, n)
                 IN  /\ log[o][j].ms = Num(calculateBackoffDelay(n))
                     /\ j < Len(log[o]) => log[o][j + 1] = FetchEvent(n + 1)
    /\ \A n \in 1..MaxAttemptNumber :
          /\ calculateBackoffDelay(n) = Min(1000 * 2 ^ (n - 1), 10000)
          /\ calculateBackoffDelay(n) >= 1000
          /\ calculateBackoffDelay(n) <= 10000

\* a network error, then a 500, then the third attempt: 1000 ms and 2000 ms
C23_Witness ==
    \E o \in Ops :
        /\ Len(outcomes[o]) = 2
        /\ IsNetworkFailure(outcomes[o][1])
        /\ IsStatus(outcomes[o][2], 500)
        /\ pc[o] = "fetching"
        /\ log[o] = <<FetchEvent(1), SleepEvent(1, "backoff", Num(1000)),
                      FetchEvent(2), SleepEvent(2, "backoff", Num(2000)),
                      FetchEvent(3)>>

\* a header value that is a decimal number
IsDecimal(h) == h.present /\ h.v # <<>> /\ \A i \in 1..Len(h.v) : IsDigit(h.v[i])

\* the seconds C24 prescribes for a retry-after header
PrescribedSeconds(h) == IF IsDecimal(h) THEN DigitsValue(h.v, 0) ELSE 60

\* C24: a 429 on an attempt that has a next attempt is followed by one wait
\* of the retry-after value in seconds when that is a number, and of 60
\* seconds when the header is absent or is no number; the wait is a number
\* of milliseconds and is not shorter.
C24_RetryAfterOrSixty ==
    \A o \in Ops : \A n \in 1..Len(outcomes[o]) :
        n < 3 /\ Is429(outcomes[o][n]) =>
            LET waits == SleepsAfter(o, n)
                seconds == PrescribedSeconds(outcomes[o][n].headers.retryAfter)
            IN  /\ Len(waits) = 1
                /\ waits[1].kind = "retry-after"
                /\ ~waits[1].ms.nan
                /\ waits[1].ms.n >= seconds * 1000

\* an attempt outcome with the rate-limit headers left out: the status, the
\* retry-after value and the failure remain
WithoutQuota(out) ==
    IF IsResponse(out)
    THEN [out EXCEPT !.headers = [@ EXCEPT !.limit = Absent,
                                           !.remaining = Absent,
                                           !.reset = Absent]]
    ELSE out

SameOutcomes(o, p) ==
    /\ Len(outcomes[o]) = Len(outcomes[p])
    /\ \A i \in 1..Len(outcomes[o]) :
          WithoutQuota(outcomes[o][i]) = WithoutQuota(outcomes[p][i])

\* how the operation ended: the code of the error it threw, or ok
ResultCode(o) ==
    IF pc[o] = "rejected" THEN thrown[o].code
    ELSE IF pc[o] = "resolved" THEN "ok"
    ELSE "none"

\* the response reports a used-up quota
Exhausted(out) == IsResponse(out) /\ out.headers.remaining = Hdr(<<"0">>)

\* one log is the beginning of the other
IsPrefix(s, t) == Len(s) <= Len(t) /\ SubSeq(t, 1, Len(s)) = s

\* C25: of two runs whose attempts ended the same way, the rate-limit
\* headers apart, one has done what the other has and possibly its next
\* step: their logs of attempts and waits agree as far as both go, neither
\* makes an attempt once the other has ended, and at the same point they
\* have the same attempts, the same waits in the same order and the same
\* result code; so a response with remaining = 0 delays and suppresses
\* nothing.
C25_QuotaHeadersChangeNothing ==
    \A o \in Ops, p \in Ops :
        SameOutcomes(o, p) =>
            /\ IsPrefix(log[o], log[p]) \/ IsPrefix(log[p], log[o])
            /\ Settled(o) => pc[p] # "fetching"
            /\ Settled(o) /\ Settled(p) => pc[o] = pc[p]
            /\ pc[o] = pc[p] =>
                  /\ log[o] = log[p]
                  /\ NumFetches(o) = NumFetches(p)
                  /\ attempt[o] = attempt[p]
                  /\ ResultCode(o) = ResultCode(p)

\* one run saw remaining = 0 on a 429, a 500 and a 200, the other saw no
\* rate-limit header at all; both made three attempts and resolved
C25_Witness ==
    \E o \in Ops, p \in Ops :
        /\ SameOutcomes(o, p)
        /\ pc[o] = "resolved" /\ pc[p] = "resolved"
        /\ Len(outcomes[o]) = 3
        /\ Is429(outcomes[o][1]) /\ Is5xx(outcomes[o][2])
        /\ \A i \in 1..3 : Exhausted(outcomes[o][i]) /\ ~Exhausted(outcomes[p][i])
        /\ retval[o].rateLimit # retval[p].rateLimit

\* the last step was the callback of a cleanup timer of attachment a
TimerRan(a) == lastCall.op = "timer" /\ lastCall.id = a

\* C26: the callback of a cleanup timer changes nothing but its own
\* disappearance when no entry is held for its attachment id, the entry
\* having been invalidated or cleared before; when an entry is held it
\* removes that entry, that entry's file and that entry's timer, and nothing
\* else.  An invalidation leaves the timer of the entry it removed no longer
\* pending.  So no step removes a file that is not there or an entry that is
\* not held, and a timer that fired or was cancelled never runs again.
C26_TimerCallbackRechecks ==
    /\ [][\A tm \in timeouts :
            TimerFires(tm) =>
                LET a == tm.attachmentId
                    entry == fileAttachmentCache[a]
                IN  /\ fileAttachmentCache'[a] = Undefined
                    /\ \A b \in AttachmentIds \ {a} :
                          fileAttachmentCache'[b] = fileAttachmentCache[b]
                    /\ IF entry = Undefined
                       THEN /\ disk' = disk
                            /\ timeouts' = timeouts \ {tm}
                       ELSE /\ disk' = disk \ {entry.filePath}
                            /\ timeouts' = {t \in timeouts \ {tm} :
                                                t.id # entry.cleanupTimer}]_vars
    /\ [][\A a \in AttachmentIds :
            Invalidate(a) /\ fileAttachmentCache[a] # Undefined =>
                \A t \in timeouts' : t.id # fileAttachmentCache[a].cleanupTimer]_vars
    /\ [][\A t \in timeouts' \ timeouts : \A u \in timeouts : t.id > u.id]_vars
    /\ [][\A t \in timeouts' \ timeouts : t.id > timerSeq]_vars

\* a cleanup timer of a has just fired and found no entry: the entry was
\* invalidated before, and a file staged for a is still there, untouched
C26_Witness ==
    \E a \in AttachmentIds :
        /\ TimerRan(a)
        /\ ~lastCall.flag
        /\ Get(a) = Undefined
        /\ lastPut[a] # Undefined /\ ~lastPut[a].live
        /\ \E f \in disk : f[3] = a

\* the last read of every flow was a download of attachment a
BothDownloaded(a) ==
    \A r \in Readers :
        Returned(r) /\ ~rretval[r].cached /\ rretval[r].attachmentId = a

\* the cleanup timers pending for attachment a
TimersOf(a) == {tm \in timeouts : tm.attachmentId = a}

\* the entry registered by the last put for a is within its TTL
LastPutFresh(a) ==
    /\ lastPut[a] # Undefined
    /\ lastPut[a].live
    /\ now - lastPut[a].entry.downloadedAt < CACHE_TTL_MS

\* C27: once two reads of attachment a have both downloaded and registered
\* it, and so also when both missed the cache before either registered, the
\* entry held for a has exactly one cleanup timer pending, its own; and the
\* entry of the later put is held until the TTL has run since its own
\* downloadedAt, the timer of the earlier put not removing it.
C27_OneEntryOneTimer ==
    \A a \in AttachmentIds :
        BothDownloaded(a) =>
            /\ Get(a) # Undefined =>
                  /\ Cardinality(TimersOf(a)) = 1
                  /\ TimerPending(Get(a))
            /\ LastPutFresh(a) =>
                  /\ Get(a) # Undefined
                  /\ PutFields(Get(a)) = lastPut[a].entry

\* the paths that are the filePath of an entry of the map
EntryPaths == {fileAttachmentCache[a].filePath : a \in Keys(CS)}

\* the entry that holds filePath has its cleanup timer pending
HeldWithTimer(filePath) ==
    \E a \in Keys(CS) :
        /\ fileAttachmentCache[a].filePath = filePath
        /\ TimerPending(fileAttachmentCache[a])

\* C28: every staged file that exists (the read flow alone writes under the
\* temp directory) is the filePath of an entry of the map, and that entry's
\* timer is pending, so that the file is deleted when the timer fires or at
\* clearAll at the latest.
C28_NoOrphanedFile ==
    \A filePath \in disk :
        /\ filePath \in EntryPaths
        /\ HeldWithTimer(filePath)

IsSleep(e) == e.ev = "sleep"

\* C29: the engine does not wait after its last permitted attempt: no sleep
\* is started after attempt 3, whatever that attempt ended with, a 429
\* included, and an operation that has raised its error has a fetch, not a
\* sleep, as the last thing it did; so every sleep is followed by another
\* attempt.
C29_NoWaitAfterLastAttempt ==
    \A o \in Ops :
        /\ \A j \in 1..Len(log[o]) :
              IsSleep(log[o][j]) => log[o][j].attempt < maxRetries
        /\ pc[o] = "rejected" => ~IsSleep(LastEvent(o))

====
